---- MODULE Spec2Model ----
(***************************************************************************)
(* A model of the data-analysis backend: the append-only analysis log and  *)
(* the analysis matrix read back from it (models/analysis_matrix.py), the  *)
(* dataset registry (services/file_handler.py), the HTTP endpoints and     *)
(* their exception handling (api/), the chat history (llm_service.py),     *)
(* the option dispatch of the statistics calculator and the scoring of the *)
(* comprehensive analysis validator.                                       *)
(*                                                                         *)
(* One set of variables holds the whole program state; each specification  *)
(* below (SpecLog, SpecConc, ...) drives one component and leaves the      *)
(* other components' variables unchanged.                                  *)
(***************************************************************************)
EXTENDS Integers, Sequences, FiniteSets, TLC

VARIABLES
    analysis_logs,  \* analysis_logs/{d}_analysis_log.jsonl: existing file -> its tokens
    logged,         \* history: the records passed to log_analysis, per dataset, in call order
    writer,         \* the record_analysis calls in flight (concurrent writers)
    metadata,       \* uploads/metadata.json: dataset id -> its registry entry
    uploads,        \* the files present in the uploads directory
    usedIds,        \* history: the dataset ids uuid4 has handed out
    deleted,        \* history: the ids whose delete_dataset returned True
    chat_history,   \* LLMService.chat_history: dict dataset id -> list of messages
    response        \* the outcome of the last request or call

vars == <<analysis_logs, logged, writer, metadata, uploads, usedIds, deleted,
          chat_history, response>>

logVars == <<analysis_logs, logged, writer>>
fileVars == <<metadata, uploads, usedIds, deleted>>

None == "None"

(***************************************************************************)
(* Bounds of the model.                                                    *)
(***************************************************************************)
MaxLogged == 3      \* log_analysis calls in a run of SpecLog
MaxRecorded == 2    \* record_analysis calls in a run of SpecConc

Datasets == {"d1", "d2"}

(***************************************************************************)
(* models/analysis_matrix.py: AnalysisType, AnalysisRecord, AnalysisLogger *)
(***************************************************************************)

\* The members of the enum AnalysisType, by name.
AnalysisType ==
    {"DESCRIPTIVE_STATS", "CORRELATION", "DISTRIBUTION", "MISSING_DATA",
     "OUTLIER_DETECTION", "TREND_ANALYSIS", "BOLLINGER_BANDS", "REGRESSION",
     "CLUSTERING", "HYPOTHESIS_TEST"}

\* member.value: the string the member serializes to.
TypeValue(t) ==
    CASE t = "DESCRIPTIVE_STATS" -> "descriptive_statistics"
      [] t = "CORRELATION" -> "correlation_analysis"
      [] t = "DISTRIBUTION" -> "distribution_analysis"
      [] t = "MISSING_DATA" -> "missing_data_analysis"
      [] t = "OUTLIER_DETECTION" -> "outlier_detection"
      [] t = "TREND_ANALYSIS" -> "trend_analysis"
      [] t = "BOLLINGER_BANDS" -> "bollinger_bands"
      [] t = "REGRESSION" -> "regression_analysis"
      [] t = "CLUSTERING" -> "clustering_analysis"
      [] t = "HYPOTHESIS_TEST" -> "hypothesis_testing"

TypeValues == {TypeValue(t) : t \in AnalysisType}

\* AnalysisType(value): the member with that value.
AnalysisTypeOf(v) == CHOOSE t \in AnalysisType : TypeValue(t) = v

\* The analysis types and overall scores the model's callers log.  Scores are
\* in hundredths of a point (7000 is 70.0).
InputTypes == {"DESCRIPTIVE_STATS", "CORRELATION", "CLUSTERING"}
ScoreValues == {4000, 7000}

\* A JSON string, and a JSON number as its decimal text: the digits before and
\* after the point.
JStr(x) == [str |-> x]
ScoreText(s) == [whole |-> s \div 100, frac |-> s % 100]

IsScoreText(x) == DOMAIN x = {"whole", "frac"} /\ x.whole \in Nat /\ x.frac \in 0..99

\* float(text): the number a decimal text denotes.
ScoreOfText(x) == x.whole * 100 + x.frac

\* AnalysisRecord, reduced to the fields the matrix is computed from.
AnalysisRecord(d, t, s) ==
    [dataset_id |-> d, analysis_type |-> t, overall_score |-> s]

InputRecords ==
    {AnalysisRecord(d, t, s) : d \in Datasets, t \in InputTypes, s \in ScoreValues}

\* A token of a log file: one key/value member of a JSON object, or the newline.
Token(k, v) == [k |-> k, v |-> v]
NL == Token("\n", JStr(""))

\* record.json(): the members of the JSON object, in field order.
RecordJson(r) ==
    << Token("dataset_id", JStr(r.dataset_id)),
       Token("analysis_type", JStr(TypeValue(r.analysis_type))),
       Token("overall_score", ScoreText(r.overall_score)) >>

\* f.write(record.json() + '\n'): the text one log_analysis call writes.
RecordLine(r) == RecordJson(r) \o <<NL>>

\* `for line in f`: the lines of a file, the last one also when it has no newline.
RECURSIVE SplitLines(_, _)
SplitLines(content, cur) ==
    IF content = <<>>
    THEN IF cur = <<>> THEN <<>> ELSE <<cur>>
    ELSE IF Head(content) = NL
         THEN <<cur>> \o SplitLines(Tail(content), <<>>)
         ELSE SplitLines(Tail(content), Append(cur, Head(content)))

FileLines(content) == SplitLines(content, <<>>)

\* json.loads(line) and AnalysisRecord(**record_data) succeed on this line.
IsRecordLine(line) ==
    /\ Len(line) = 3
    /\ line[1].k = "dataset_id"
    /\ line[2].k = "analysis_type"
    /\ line[2].v.str \in TypeValues
    /\ line[3].k = "overall_score"
    /\ IsScoreText(line[3].v)

\* AnalysisRecord(**json.loads(line)).
ParseRecord(line) ==
    AnalysisRecord(line[1].v.str, AnalysisTypeOf(line[2].v.str),
                   ScoreOfText(line[3].v))

\* `if line.strip()`: the lines that are not blank.
RECURSIVE NonBlank(_)
NonBlank(lines) ==
    IF lines = <<>> THEN <<>>
    ELSE IF Head(lines) = <<>> THEN NonBlank(Tail(lines))
         ELSE <<Head(lines)>> \o NonBlank(Tail(lines))

RECURSIVE SumScores(_)
SumScores(records) ==
    IF records = <<>> THEN 0
    ELSE Head(records).overall_score + SumScores(Tail(records))

\* sum(r.score.overall_score for r in records) / len(records), as a fraction.
OverallQualityFirstOnly(records) == [num |-> records[1].overall_score, den |-> 1]
OverallQuality(records) == [num |-> SumScores(records), den |-> Len(records)]

\* coverage_matrix: for each member of AnalysisType, keyed by its value, whether
\* any record has that type.
CoverageOfLast(records) ==
    [v \in TypeValues |->
        TypeValue(records[Len(records)].analysis_type) = v]
CoverageMatrix(records) ==
    [v \in TypeValues |->
        \E i \in 1..Len(records) : TypeValue(records[i].analysis_type) = v]

\* The outcomes of a call: the value None, or an exception raised.
NoMatrix == [kind |-> "None"]
Raised(e) == [kind |-> "raised", error |-> e]

\* get_analysis_matrix with the lines json.loads or pydantic rejects skipped
ReadMatrix_skipping(files, d) ==
    IF d \notin DOMAIN files THEN NoMatrix
    ELSE LET lines == SelectSeq(NonBlank(FileLines(files[d])), IsRecordLine)
         IN IF lines = <<>> THEN NoMatrix
            ELSE LET records == [i \in 1..Len(lines) |-> ParseRecord(lines[i])]
                 IN [kind |-> "AnalysisMatrix",
                     dataset_id |-> d,
                     total_analyses |-> Len(records),
                     analysis_records |-> records,
                     overall_quality_score |-> OverallQuality(records),
                     coverage_matrix |-> CoverageMatrix(records)]

\* AnalysisLogger.get_analysis_matrix(dataset_id) on the given log files:
\* None, an AnalysisMatrix, or the exception json.loads / pydantic raises.
ReadMatrix(files, d) ==
    IF d \notin DOMAIN files THEN NoMatrix
    ELSE LET lines == NonBlank(FileLines(files[d]))
         IN IF \E i \in 1..Len(lines) : ~IsRecordLine(lines[i])
            THEN Raised("JSONDecodeError")
            ELSE IF lines = <<>> THEN NoMatrix
            ELSE LET records == [i \in 1..Len(lines) |-> ParseRecord(lines[i])]
                 IN [kind |-> "AnalysisMatrix",
                     dataset_id |-> d,
                     total_analyses |-> Len(records),
                     analysis_records |-> records,
                     overall_quality_score |-> OverallQuality(records),
                     coverage_matrix |-> CoverageMatrix(records)]

get_analysis_matrix(d) == ReadMatrix(analysis_logs, d)

IsMatrix(m) == m.kind = "AnalysisMatrix"

\* The content open(log_file, 'a') appends to: the file, created empty if missing.
LogContent(d) == IF d \in DOMAIN analysis_logs THEN analysis_logs[d] ELSE <<>>

WriteLog(d, content) ==
    [x \in DOMAIN analysis_logs \cup {d} |->
        IF x = d THEN content ELSE analysis_logs[x]]

RECURSIVE SumLen(_, _)
SumLen(f, S) ==
    IF S = {} THEN 0
    ELSE LET x == CHOOSE y \in S : TRUE IN Len(f[x]) + SumLen(f, S \ {x})

\* The number of log_analysis calls made so far (the bound of a run counts them).
TotalLogged == SumLen(logged, Datasets)

\* AnalysisLogger.log_analysis(record): one line appended to the dataset's log.
log_analysis_truncating(record) ==
    /\ TotalLogged < MaxLogged
    /\ analysis_logs' = WriteLog(record.dataset_id, RecordLine(record))
    /\ logged' = [logged EXCEPT ![record.dataset_id] = Append(@, record)]
    /\ response' = [op |-> "log_analysis", dataset_id |-> record.dataset_id,
                    result |-> [kind |-> "log_file"]]
    /\ UNCHANGED <<writer, fileVars, chat_history>>

log_analysis(record) ==
    /\ TotalLogged < MaxLogged
    /\ analysis_logs' = WriteLog(record.dataset_id,
                                 LogContent(record.dataset_id) \o RecordLine(record))
    /\ logged' = [logged EXCEPT ![record.dataset_id] = Append(@, record)]
    /\ response' = [op |-> "log_analysis", dataset_id |-> record.dataset_id,
                    result |-> [kind |-> "log_file"]]
    /\ UNCHANGED <<writer, fileVars, chat_history>>

\* A call of AnalysisMatrixService.get_analysis_matrix(dataset_id).
GetAnalysisMatrix(d) ==
    /\ response' = [op |-> "get_analysis_matrix", dataset_id |-> d,
                    result |-> get_analysis_matrix(d)]
    /\ UNCHANGED <<logVars, fileVars, chat_history>>

NoResponse == [op |-> "none", dataset_id |-> None, result |-> NoMatrix]

InitLog ==
    /\ analysis_logs = << >>
    /\ logged = [d \in Datasets |-> <<>>]
    /\ writer = << >>
    /\ metadata = << >>
    /\ uploads = {}
    /\ usedIds = {}
    /\ deleted = {}
    /\ chat_history = << >>
    /\ response = NoResponse

NextLog ==
    \/ \E record \in InputRecords : log_analysis(record)
    \/ \E d \in Datasets : GetAnalysisMatrix(d)

SpecLog == InitLog /\ [][NextLog]_vars

(***************************************************************************)
(* models/analysis_matrix.py: AnalysisValidator.  `results` is the set of  *)
(* keys of the results dictionary, `parameters` the parameters dictionary. *)
(* Scores are in hundredths of a point.                                    *)
(***************************************************************************)

AnalysisScore(m, c, a, i, o) ==
    [methodology_score |-> m, completeness_score |-> c, accuracy_score |-> a,
     interpretation_score |-> i, overall_score |-> o]

\* The descriptive score with its four parts added up unweighted.
validate_descriptive_stats_unweighted(results, parameters) ==
    LET required == {"mean", "median", "std", "min", "max", "count"}
        k == Cardinality(required \cap results)
        methodology == 8500
        completeness == (k * 10000) \div 6
        accuracy == IF "mean" \in results /\ "median" \in results THEN 9000 ELSE 0
        interpretation ==
            IF results \cap {"insights", "summary", "interpretation"} # {}
            THEN 7500 ELSE 4000
    IN AnalysisScore(methodology, completeness, accuracy, interpretation,
                     methodology + completeness + accuracy + interpretation)

\* validate_descriptive_stats: completeness is the share of the six required
\* statistics provided (its third decimal is cut); overall is the weighted sum
\* 0.25/0.3/0.3/0.15, in which completeness * 0.3 is exactly 5 points a key.
validate_descriptive_stats(results, parameters) ==
    LET required == {"mean", "median", "std", "min", "max", "count"}
        k == Cardinality(required \cap results)
        methodology == 8500
        completeness == (k * 10000) \div 6
        accuracy == IF "mean" \in results /\ "median" \in results THEN 9000 ELSE 0
        interpretation ==
            IF results \cap {"insights", "summary", "interpretation"} # {}
            THEN 7500 ELSE 4000
    IN AnalysisScore(methodology, completeness, accuracy, interpretation,
                     (methodology * 25 + k * 50000 + accuracy * 30
                        + interpretation * 15) \div 100)

\* validate_correlation_analysis.
validate_correlation_analysis(results, parameters) ==
    LET computed == results \cap {"correlation_matrix", "correlations"} # {}
        tested == results \cap {"p_values", "significance"} # {}
        methodology == IF tested THEN 9500 ELSE 8000
        completeness == IF computed THEN 8500 ELSE 0
        accuracy == IF tested THEN 9500 ELSE IF computed THEN 8500 ELSE 0
        interpretation ==
            IF results \cap {"strong_correlations", "insights"} # {}
            THEN 8000 ELSE 5000
    IN AnalysisScore(methodology, completeness, accuracy, interpretation,
                     (methodology * 30 + completeness * 25 + accuracy * 30
                        + interpretation * 15) \div 100)

\* validate_bollinger_bands: parameters.get('window', 20).
validate_bollinger_bands(results, parameters) ==
    LET window == IF "window" \in DOMAIN parameters THEN parameters["window"] ELSE 20
        methodology ==
            IF 15 <= window /\ window <= 25 THEN 9000
            ELSE IF 10 <= window /\ window <= 50 THEN 7500 ELSE 5000
        completeness ==
            IF {"ma", "upper", "lower", "values"} \subseteq results THEN 9500 ELSE 6000
        accuracy == IF {"ma", "upper", "lower"} \subseteq results THEN 9000 ELSE 0
        interpretation ==
            IF results \cap {"signals", "analysis", "insights"} # {}
            THEN 8500 ELSE 6000
    IN AnalysisScore(methodology, completeness, accuracy, interpretation,
                     (methodology * 30 + completeness * 25 + accuracy * 30
                        + interpretation * 15) \div 100)

\* validate_analysis: routes to the validator of the type, or the default score.
validate_analysis(analysis_type, results, parameters) ==
    CASE analysis_type = "DESCRIPTIVE_STATS" ->
            validate_descriptive_stats(results, parameters)
      [] analysis_type = "CORRELATION" ->
            validate_correlation_analysis(results, parameters)
      [] analysis_type = "BOLLINGER_BANDS" ->
            validate_bollinger_bands(results, parameters)
      [] OTHER -> AnalysisScore(7000, 7000, 7000, 7000, 7000)

(***************************************************************************)
(* services/analysis_matrix_service.py: record_analysis, as the steps of   *)
(* one call that other calls can run between.  The record is validated and *)
(* built, log_analysis opens the log for appending, and the buffered line  *)
(* reaches the file in one or more write(2) calls, each appending at the   *)
(* end of the file as it is then; nothing orders the writes of two calls.  *)
(***************************************************************************)

Writers == {"w1", "w2"}

\* The analyses the concurrent callers record.
ConcTypes == {"DESCRIPTIVE_STATS", "DISTRIBUTION"}
ConcResults == {{"mean", "median", "std", "summary"}}
NoParameters == << >>

Idle == [pc |-> "idle", dataset_id |-> None, pending |-> <<>>]

\* record_analysis up to the open() of log_analysis.
record_analysis_begin(w, d, analysis_type, results) ==
    /\ writer[w].pc = "idle"
    /\ TotalLogged < MaxRecorded
    /\ LET score == validate_analysis(analysis_type, results, NoParameters)
           record == AnalysisRecord(d, analysis_type, score.overall_score)
       IN /\ writer' = [writer EXCEPT ![w] =
                          [pc |-> "writing", dataset_id |-> d,
                           pending |-> RecordLine(record)]]
          /\ logged' = [logged EXCEPT ![d] = Append(@, record)]
    /\ analysis_logs' = WriteLog(d, LogContent(d))
    /\ response' = [op |-> "record_analysis", dataset_id |-> d,
                    result |-> [kind |-> "started"]]
    /\ UNCHANGED <<fileVars, chat_history>>

\* One write(2) of the buffered line: the first k tokens left are appended.
\* With the last one the file is closed and record_analysis returns.
write_chunk_locked(w) ==
    /\ writer[w].pc = "writing"
    /\ \A o \in Writers \ {w} :
          ~(/\ writer[o].pc = "writing"
            /\ writer[o].dataset_id = writer[w].dataset_id
            /\ Len(writer[o].pending) < 4)
    /\ \E k \in 1..Len(writer[w].pending) :
          /\ analysis_logs' =
                WriteLog(writer[w].dataset_id,
                         LogContent(writer[w].dataset_id)
                            \o SubSeq(writer[w].pending, 1, k))
          /\ writer' = [writer EXCEPT ![w] =
                IF k = Len(writer[w].pending) THEN Idle
                ELSE [@ EXCEPT !.pending =
                        SubSeq(writer[w].pending, k + 1, Len(writer[w].pending))]]
          /\ response' = [op |-> "record_analysis",
                          dataset_id |-> writer[w].dataset_id,
                          result |-> [kind |-> IF k = Len(writer[w].pending)
                                               THEN "returned" ELSE "writing"]]
    /\ UNCHANGED <<logged, fileVars, chat_history>>

write_chunk(w) ==
    /\ writer[w].pc = "writing"
    /\ \E k \in 1..Len(writer[w].pending) :
          /\ analysis_logs' =
                WriteLog(writer[w].dataset_id,
                         LogContent(writer[w].dataset_id)
                            \o SubSeq(writer[w].pending, 1, k))
          /\ writer' = [writer EXCEPT ![w] =
                IF k = Len(writer[w].pending) THEN Idle
                ELSE [@ EXCEPT !.pending =
                        SubSeq(writer[w].pending, k + 1, Len(writer[w].pending))]]
          /\ response' = [op |-> "record_analysis",
                          dataset_id |-> writer[w].dataset_id,
                          result |-> [kind |-> IF k = Len(writer[w].pending)
                                               THEN "returned" ELSE "writing"]]
    /\ UNCHANGED <<logged, fileVars, chat_history>>

InitConc ==
    /\ analysis_logs = << >>
    /\ logged = [d \in Datasets |-> <<>>]
    /\ writer = [w \in Writers |-> Idle]
    /\ metadata = << >>
    /\ uploads = {}
    /\ usedIds = {}
    /\ deleted = {}
    /\ chat_history = << >>
    /\ response = NoResponse

NextConc ==
    \/ \E w \in Writers, d \in Datasets, t \in ConcTypes, r \in ConcResults :
          record_analysis_begin(w, d, t, r)
    \/ \E w \in Writers : write_chunk(w)
    \/ \E d \in Datasets : GetAnalysisMatrix(d)

SpecConc == InitConc /\ [][NextConc]_vars

(***************************************************************************)
(* The analysis log and the matrix read back from it.                      *)
(***************************************************************************)

IsPrefix(s, t) == Len(s) <= Len(t) /\ SubSeq(t, 1, Len(s)) = s

\* What a read of d's log returns after the calls recorded in logged[d]:
\* nothing before the first call, then the logged records in call order.
ReadsBackLogged(d) ==
    LET m == get_analysis_matrix(d)
    IN IF logged[d] = <<>> THEN m = NoMatrix
       ELSE /\ IsMatrix(m)
            /\ m.analysis_records = logged[d]
            /\ m.total_analyses = Len(logged[d])

\* No step changes or removes a token already in a log file.
LogOnlyGrows ==
    \A d \in DOMAIN analysis_logs :
        /\ d \in DOMAIN analysis_logs'
        /\ IsPrefix(analysis_logs[d], analysis_logs'[d])

\* C1: the log of a dataset is append-only: no log_analysis call changes or
\* removes what is already written, and after any sequence of calls
\* get_analysis_matrix(d) returns exactly the records logged for d, in call
\* order, with total_analyses the number of calls made for d.
C1_AppendOnlyLog ==
    /\ [][LogOnlyGrows]_vars
    /\ [](\A d \in Datasets : ReadsBackLogged(d))
    /\ [](response.op = "get_analysis_matrix" /\ logged[response.dataset_id] # <<>>
            => /\ IsMatrix(response.result)
               /\ response.result.analysis_records = logged[response.dataset_id])

C1_Witness ==
    /\ response.op = "get_analysis_matrix"
    /\ IsMatrix(response.result)
    /\ response.result.total_analyses = 3
    /\ response.result.analysis_records[1] # response.result.analysis_records[2]

\* C2: after N >= 1 logged records the overall_quality_score a read returns is
\* the arithmetic mean of the N logged overall scores (num/den = sum/N),
\* whatever was read before the last log_analysis.
C2_OverallQualityIsMean ==
    \A d \in Datasets :
        logged[d] # <<>> =>
            LET m == get_analysis_matrix(d)
            IN /\ IsMatrix(m)
               /\ m.overall_quality_score.den > 0
               /\ m.overall_quality_score.num * Len(logged[d])
                    = SumScores(logged[d]) * m.overall_quality_score.den
               /\ (response.op = "get_analysis_matrix" /\ response.dataset_id = d
                     => response.result.overall_quality_score = m.overall_quality_score)

C2_Witness ==
    /\ response.op = "get_analysis_matrix"
    /\ IsMatrix(response.result)
    /\ response.result.total_analyses = 2
    /\ response.result.overall_quality_score = [num |-> 11000, den |-> 2]

\* An entry of d's coverage matrix that is true stays true.
CoverageStaysTrue ==
    \A d \in Datasets :
        LET m == get_analysis_matrix(d)
            n == ReadMatrix(analysis_logs', d)
        IN IsMatrix(m) =>
              /\ IsMatrix(n)
              /\ \A v \in TypeValues : m.coverage_matrix[v] => n.coverage_matrix[v]

\* C3: the coverage matrix has exactly one boolean entry per AnalysisType
\* member (10 entries), an entry is true iff some logged record of the dataset
\* has that type, and a true entry stays true after further log_analysis calls.
C3_CoverageMatrix ==
    /\ [](\A d \in Datasets :
            logged[d] # <<>> =>
                LET m == get_analysis_matrix(d)
                IN /\ IsMatrix(m)
                   /\ DOMAIN m.coverage_matrix = TypeValues
                   /\ Cardinality(DOMAIN m.coverage_matrix) = 10
                   /\ \A t \in AnalysisType :
                        /\ m.coverage_matrix[TypeValue(t)] \in BOOLEAN
                        /\ m.coverage_matrix[TypeValue(t)]
                             <=> \E i \in 1..Len(logged[d]) :
                                    logged[d][i].analysis_type = t)
    /\ [][CoverageStaysTrue]_vars

C3_Witness ==
    /\ response.op = "get_analysis_matrix"
    /\ IsMatrix(response.result)
    /\ response.result.total_analyses = 2
    /\ response.result.coverage_matrix["descriptive_statistics"]
    /\ response.result.coverage_matrix["clustering_analysis"]
    /\ ~response.result.coverage_matrix["correlation_analysis"]
    /\ response.result.analysis_records[2].analysis_type = "DESCRIPTIVE_STATS"

\* A line holding the same key twice: the tokens of two records in one line.
Interleaved(line) ==
    \E i, j \in 1..Len(line) : i < j /\ line[i].k = line[j].k

HasInterleavedLine(d) ==
    /\ d \in DOMAIN analysis_logs
    /\ \E i \in 1..Len(FileLines(analysis_logs[d])) :
          Interleaved(FileLines(analysis_logs[d])[i])

PyNone == [kind |-> "None"]

\* f"uploads/{dataset_id}{file_extension}"
UploadPath(dataset_id, ext) == [dir |-> "uploads", dataset_id |-> dataset_id, ext |-> ext]

Extensions == {".csv", ".json", ".txt"}
AllowedExtensions == {".csv", ".xlsx", ".xls", ".json"}

\* what pd.read_csv / pd.read_json find in the file at the path: the number
\* of numeric columns and the number of rows (none with a missing value)
ReadShape(path) ==
    CASE path.dataset_id = "d1" /\ path.ext = ".csv" -> [numeric |-> 0, rows |-> 5]
      [] path.dataset_id = "d1" -> [numeric |-> 1, rows |-> 5]
      [] path.ext = ".csv" -> [numeric |-> 2, rows |-> 3]
      [] OTHER -> [numeric |-> 2, rows |-> 5]

DataFrame(path) ==
    [kind |-> "DataFrame", file_path |-> path,
     numeric |-> ReadShape(path).numeric, rows |-> ReadShape(path).rows]

\* metadata.get(dataset_id)
get_dataset_info(meta, dataset_id) ==
    IF dataset_id \in DOMAIN meta THEN meta[dataset_id] ELSE PyNone

\* load_dataset: None for an id that is not registered, a file that is gone
\* or an extension no reader is chosen for; otherwise the file as read now.
load_dataset(meta, files, dataset_id) ==
    LET dataset_info == get_dataset_info(meta, dataset_id)
    IN IF dataset_info = PyNone THEN PyNone
       ELSE IF dataset_info.file_path \notin files THEN PyNone
       ELSE IF dataset_info.file_path.ext \in {".csv", ".xlsx", ".xls", ".json"}
            THEN DataFrame(dataset_info.file_path)
       ELSE PyNone

\* get_dataset_preview makes the same three checks before it reads the file.
get_dataset_preview(meta, files, dataset_id) ==
    LET df == load_dataset(meta, files, dataset_id)
    IN IF df = PyNone THEN PyNone ELSE [kind |-> "preview", file_path |-> df.file_path]

\* delete_dataset: False for an id that is not registered, else the file and
\* the entry are removed.  The three operators give its return value and the
\* registry and the files it leaves.
delete_dataset_returns(meta, dataset_id) == dataset_id \in DOMAIN meta

delete_dataset_metadata(meta, dataset_id) ==
    [x \in DOMAIN meta \ {dataset_id} |-> meta[x]]

delete_dataset_files(meta, files, dataset_id) ==
    IF dataset_id \in DOMAIN meta THEN files \ {meta[dataset_id].file_path} ELSE files

\* save_dataset_metadata without the read of the registry file: the new
\* entry is written over whatever other uploads have registered
save_dataset_metadata_unread(meta, dataset_id, file_path) ==
    [x \in {dataset_id} |-> [dataset_id |-> dataset_id, file_path |-> file_path]]

\* save_dataset_metadata: read, set the entry, write back.
save_dataset_metadata(meta, dataset_id, file_path) ==
    [x \in DOMAIN meta \cup {dataset_id} |->
        IF x = dataset_id THEN [dataset_id |-> dataset_id, file_path |-> file_path]
        ELSE meta[x]]

(***************************************************************************)
(* Exceptions and the except chains of the endpoints.  What a call does is *)
(* an outcome: a returned value or a raised exception.  HTTPException is   *)
(* an Exception, so a bare `except Exception` catches it too.              *)
(***************************************************************************)

Returned(v) == [kind |-> "returned", value |-> v]
HTTPException(status_code, detail) ==
    [kind |-> "raised", error |-> "HTTPException",
     status_code |-> status_code, detail |-> detail]

IsRaised(o) == o.kind = "raised"
IsHTTPException(o) == IsRaised(o) /\ o.error = "HTTPException"

\* except FileNotFoundError: 404 / except Exception: 500
ExceptFileNotFoundThenException(o, detail) ==
    IF ~IsRaised(o) THEN o
    ELSE IF o.error = "FileNotFoundError" THEN HTTPException(404, "Dataset not found")
    ELSE HTTPException(500, detail)

\* except HTTPException: raise / except Exception: 500
ExceptHTTPExceptionThenException(o, detail) ==
    IF ~IsRaised(o) \/ IsHTTPException(o) THEN o ELSE HTTPException(500, detail)

\* except Exception: 500
ExceptException(o, detail) ==
    IF ~IsRaised(o) THEN o ELSE HTTPException(500, detail)

\* What FastAPI answers for the outcome of a handler.
HTTPResponse(status_code, body) ==
    [kind |-> "HTTPResponse", status_code |-> status_code, body |-> body]

Answer(o) ==
    IF ~IsRaised(o) THEN HTTPResponse(200, o.value)
    ELSE IF IsHTTPException(o) THEN HTTPResponse(o.status_code, [detail |-> o.detail])
    ELSE HTTPResponse(500, [detail |-> "Internal Server Error"])

(***************************************************************************)
(* services/statistics_calculator.py and schemas/responses.py.             *)
(***************************************************************************)

\* The options of calculate_basic_stats in the order of its if statements.
BasicOptions ==
    << "descriptive", "correlation", "distribution", "missing_data",
       "missing_value_analysis", "duplicates_analysis",
       "type_integrity_validation", "univariate_summaries", "outlier_detection",
       "feature_engineering_ideas", "multicollinearity_assessment",
       "dimensionality_insights", "baseline_model_sanity",
       "drift_stability_analysis", "bias_fairness_flags",
       "documentation_summary", "reproducibility_info" >>

\* The attribute of the result each option assigns.
ResultField(option) ==
    CASE option = "descriptive" -> "descriptive_stats"
      [] option = "correlation" -> "correlation_matrix"
      [] option = "distribution" -> "distribution_analysis"
      [] option = "missing_data" -> "missing_data_summary"
      [] OTHER -> option

\* The fields BasicStatsResponse declares besides dataset_id.
BasicStatsFields ==
    {"descriptive_stats", "correlation_matrix", "distribution_analysis",
     "missing_data_summary"}

\* BasicStatsResponse(dataset_id=dataset_id): every declared field None.
BasicStatsResponse(dataset_id) ==
    [dataset_id |-> dataset_id,
     fields |-> [f \in BasicStatsFields |-> PyNone]]

\* the result of an analysis whose precondition is met: a value determined
\* by the calculation and the data
Stats(option, df) == [kind |-> "stats", of |-> option, data |-> df.file_path]

\* {"message": ...}
Placeholder(message) == [kind |-> "placeholder", message |-> message]

\* df.select_dtypes(include=[np.number]).empty: no column or no row
NumericEmpty(df) == df.numeric = 0 \/ df.rows = 0

_calculate_descriptive_stats(df) ==
    IF NumericEmpty(df) THEN Placeholder("No numeric columns found")
    ELSE Stats("descriptive", df)

_calculate_correlation_analysis(df) ==
    IF df.numeric < 2
    THEN Placeholder("Need at least 2 numeric columns for correlation analysis")
    ELSE Stats("correlation", df)

_calculate_distribution_analysis(df) ==
    IF NumericEmpty(df) THEN Placeholder("No numeric columns found")
    ELSE Stats("distribution", df)

_calculate_outlier_detection(df) ==
    IF NumericEmpty(df) THEN Placeholder("No numeric columns found for outlier detection")
    ELSE Stats("outlier_detection", df)

\* self._calculate_...(df) for the option
Calculated(option, df) ==
    CASE option = "descriptive" -> _calculate_descriptive_stats(df)
      [] option = "correlation" -> _calculate_correlation_analysis(df)
      [] option = "distribution" -> _calculate_distribution_analysis(df)
      [] option = "outlier_detection" -> _calculate_outlier_detection(df)
      [] OTHER -> Stats(option, df)

\* The if statements from the i-th on.  Assigning an attribute the model
\* does not declare raises ValueError (pydantic), which is logged and re-raised.
RECURSIVE SetOptions(_, _, _, _)
SetOptions(result, i, options, df) ==
    IF i > Len(BasicOptions) THEN Returned(result)
    ELSE IF BasicOptions[i] \notin options THEN SetOptions(result, i + 1, options, df)
    ELSE IF ResultField(BasicOptions[i]) \notin BasicStatsFields
         THEN Raised("ValueError")
    ELSE SetOptions([result EXCEPT !.fields[ResultField(BasicOptions[i])] =
                        Calculated(BasicOptions[i], df)],
                    i + 1, options, df)

calculate_basic_stats(meta, files, dataset_id, options) ==
    LET df == load_dataset(meta, files, dataset_id)
    IN IF df = PyNone THEN Raised("FileNotFoundError")
       ELSE SetOptions(BasicStatsResponse(dataset_id), 1, options, df)

_perform_regression_analysis(df) ==
    IF df.numeric < 2
    THEN Placeholder("Need at least 2 numeric columns for regression analysis")
    ELSE Stats("regression", df)

_perform_clustering_analysis(df) ==
    IF df.rows < 4 \/ df.numeric < 2
    THEN Placeholder("Need at least 4 rows and 2 numeric columns for clustering")
    ELSE Stats("clustering", df)

_perform_pca_analysis(df) ==
    IF df.numeric < 2 THEN Placeholder("Need at least 2 numeric columns for PCA")
    ELSE Stats("pca", df)

\* the files hold no datetime column
_perform_time_series_analysis(df) ==
    Placeholder("No datetime columns found for time series analysis")

_perform_anomaly_detection(df) ==
    IF NumericEmpty(df) THEN Placeholder("No numeric columns found for anomaly detection")
    ELSE Stats("anomaly_detection", df)

\* The attribute of AdvancedStatsResponse each option assigns; all five are
\* declared.
AdvancedField(option) ==
    CASE option = "regression" -> "regression_analysis"
      [] option = "clustering" -> "clustering_results"
      [] option = "pca" -> "pca_analysis"
      [] option = "time_series" -> "time_series_analysis"
      [] OTHER -> "anomaly_detection"

AdvancedOptions == {"regression", "clustering", "pca", "time_series", "anomaly_detection"}

Performed(option, df) ==
    CASE option = "regression" -> _perform_regression_analysis(df)
      [] option = "clustering" -> _perform_clustering_analysis(df)
      [] option = "pca" -> _perform_pca_analysis(df)
      [] option = "time_series" -> _perform_time_series_analysis(df)
      [] OTHER -> _perform_anomaly_detection(df)

\* AdvancedStatsResponse(dataset_id=dataset_id) after the five if statements
calculate_advanced_stats(meta, files, dataset_id, options) ==
    LET df == load_dataset(meta, files, dataset_id)
    IN IF df = PyNone THEN Raised("FileNotFoundError")
       ELSE Returned([kind |-> "AdvancedStatsResponse", dataset_id |-> dataset_id,
                      fields |->
                         [f \in {AdvancedField(o) : o \in AdvancedOptions} |->
                            IF \E o \in options \cap AdvancedOptions : AdvancedField(o) = f
                            THEN Performed(CHOOSE o \in AdvancedOptions : AdvancedField(o) = f, df)
                            ELSE PyNone]])

\* get_quick_summary, as far as the dataset being there decides what it does.

get_quick_summary(meta, files, dataset_id) ==
    LET df == load_dataset(meta, files, dataset_id)
    IN IF df = PyNone THEN Raised("FileNotFoundError")
       ELSE Returned([kind |-> "summary", dataset_id |-> dataset_id])

(***************************************************************************)
(* services/llm_service.py.  `llm` is what the call to the OpenAI client   *)
(* does this time: it answers, or it raises.                               *)
(***************************************************************************)

LLMOutcomes == {"answers", "raises"}

\* self.client.chat.completions.create(...)
completions_create(llm) ==
    IF llm = "raises" THEN Raised("APIError") ELSE Returned("completion")

\* _get_llm_response: except Exception as e: return f"Error generating analysis: {str(e)}"
get_llm_response(llm) ==
    IF IsRaised(completions_create(llm))
    THEN Returned("Error generating analysis: APIError")
    ELSE completions_create(llm)

\* _get_chat_response: except Exception as e: return f"Error: {str(e)}"
get_chat_response_uncaught(llm) == completions_create(llm)

get_chat_response(llm) ==
    IF IsRaised(completions_create(llm))
    THEN Returned("Error: APIError")
    ELSE completions_create(llm)

\* self.chat_history.get(dataset_id, [])
History(hist, dataset_id) ==
    IF dataset_id \in DOMAIN hist THEN hist[dataset_id] ELSE <<>>

ChatEntry(role, content) == [role |-> role, content |-> content]

\* chat_with_data: what the call does ...
ChatOutcome(meta, files, dataset_id, message, llm) ==
    IF load_dataset(meta, files, dataset_id) = PyNone
    THEN Raised("FileNotFoundError")
    ELSE IF IsRaised(get_chat_response(llm)) THEN get_chat_response(llm)
    ELSE Returned([kind |-> "ChatResponse",
                   response |-> get_chat_response(llm).value,
                   dataset_id |-> dataset_id])

\* ... and the chat history it leaves: the user message and the reply are
\* appended once the reply is there.
ExtendUserOnly(hist, dataset_id, message, reply) ==
    [x \in DOMAIN hist \cup {dataset_id} |->
        IF x = dataset_id
        THEN History(hist, dataset_id) \o <<ChatEntry("user", message)>>
        ELSE hist[x]]

Extend(hist, dataset_id, message, reply) ==
    [x \in DOMAIN hist \cup {dataset_id} |->
        IF x = dataset_id
        THEN History(hist, dataset_id)
                \o <<ChatEntry("user", message), ChatEntry("assistant", reply)>>
        ELSE hist[x]]

\* the history left if the list of the dataset were created before the
\* dataset is loaded
ChatHistoryAfter_created(hist, meta, files, dataset_id, message, llm) ==
    IF IsRaised(ChatOutcome(meta, files, dataset_id, message, llm))
    THEN [x \in DOMAIN hist \cup {dataset_id} |-> History(hist, x)]
    ELSE Extend(hist, dataset_id, message, get_chat_response(llm).value)

ChatHistoryAfter(hist, meta, files, dataset_id, message, llm) ==
    IF IsRaised(ChatOutcome(meta, files, dataset_id, message, llm)) THEN hist
    ELSE Extend(hist, dataset_id, message, get_chat_response(llm).value)

\* perform_full_analysis: the insights are validated and returned whatever
\* their text is.
FullAnalysisOutcome(meta, files, dataset_id, llm) ==
    IF load_dataset(meta, files, dataset_id) = PyNone
    THEN Raised("FileNotFoundError")
    ELSE IF IsRaised(get_llm_response(llm)) THEN get_llm_response(llm)
    ELSE Returned([kind |-> "AnalysisResponse",
                   dataset_id |-> dataset_id,
                   llm_insights |-> get_llm_response(llm).value])

\* history[-limit:] if limit else history
LastEntries(history, limit) ==
    IF limit = 0 \/ limit >= Len(history) THEN history
    ELSE SubSeq(history, Len(history) - limit + 1, Len(history))

\* self.chat_history.clear()
WithoutHistory_of_any(hist, dataset_id) == << >>

\* if dataset_id in self.chat_history: del self.chat_history[dataset_id]
WithoutHistory(hist, dataset_id) ==
    [x \in DOMAIN hist \ {dataset_id} |-> hist[x]]

(***************************************************************************)
(* The HTTP endpoints, named by their routes.  Each is one request served  *)
(* from start to end; `response` is what the client is answered.           *)
(***************************************************************************)

MaxHttpChats == 1
MaxHttpLogged == 1

Messages == {"m1", "m2"}
OptionSets == {{"descriptive"}, {"descriptive", "missing_value_analysis"}}
AdvancedOptionSets == {{"regression"}, {"clustering", "anomaly_detection"}}
RecordTypes == {"descriptive_statistics", "no_such_analysis"}

RECURSIVE SumHist(_, _)
SumHist(hist, S) ==
    IF S = {} THEN 0
    ELSE LET x == CHOOSE y \in S : TRUE
         IN Len(hist[x]) + SumHist(hist, S \ {x})

\* The number of chats the histories hold.
TotalChats == SumHist(chat_history, DOMAIN chat_history) \div 2

Reply(op, dataset_id, outcome) ==
    [op |-> op, dataset_id |-> dataset_id, result |-> Answer(outcome)]

Loadable(dataset_id) == load_dataset(metadata, uploads, dataset_id) # PyNone

\* api/endpoints/upload.py: upload_dataset.  The id is a fresh uuid4; a file
\* pandas cannot read is removed again by process_uploaded_file.
POST_upload(dataset_id, ext, readable) ==
    /\ dataset_id \notin usedIds
    /\ IF ext \notin AllowedExtensions
       THEN /\ response' = Reply("POST /upload", None,
                    ExceptException(HTTPException(400, "Unsupported file type"),
                                    "Upload failed"))
            /\ UNCHANGED <<metadata, uploads, usedIds>>
       ELSE /\ usedIds' = usedIds \cup {dataset_id}
            /\ IF readable
               THEN /\ uploads' = uploads \cup {UploadPath(dataset_id, ext)}
                    /\ metadata' = save_dataset_metadata(metadata, dataset_id,
                                        UploadPath(dataset_id, ext))
                    /\ response' = Reply("POST /upload", dataset_id,
                            ExceptException(
                                Returned([kind |-> "DatasetInfo",
                                          dataset_id |-> dataset_id]),
                                "Upload failed"))
               ELSE /\ UNCHANGED <<metadata, uploads>>
                    /\ response' = Reply("POST /upload", dataset_id,
                            ExceptException(Raised("ParserError"), "Upload failed"))
    /\ UNCHANGED <<logVars, deleted, chat_history>>

\* upload.py: get_dataset_info
GET_dataset(dataset_id) ==
    /\ response' = Reply("GET /dataset/{dataset_id}", dataset_id,
            ExceptHTTPExceptionThenException(
                IF get_dataset_info(metadata, dataset_id) = PyNone
                THEN HTTPException(404, "Dataset not found")
                ELSE Returned(get_dataset_info(metadata, dataset_id)),
                "Failed to retrieve dataset info"))
    /\ UNCHANGED <<logVars, fileVars, chat_history>>

\* upload.py: delete_dataset, with the file and the entry left in place
\* although success is reported.
DELETE_dataset_keeping(dataset_id) ==
    /\ response' = Reply("DELETE /dataset/{dataset_id}", dataset_id,
            ExceptHTTPExceptionThenException(
                IF delete_dataset_returns(metadata, dataset_id)
                THEN Returned([message |-> "Dataset deleted successfully"])
                ELSE HTTPException(404, "Dataset not found"),
                "Failed to delete dataset"))
    /\ deleted' = IF delete_dataset_returns(metadata, dataset_id)
                  THEN deleted \cup {dataset_id} ELSE deleted
    /\ UNCHANGED <<metadata, uploads>>
    /\ UNCHANGED <<logVars, usedIds, chat_history>>

\* upload.py: delete_dataset.  `deleted` records the ids whose deletion
\* succeeded.
DELETE_dataset(dataset_id) ==
    /\ response' = Reply("DELETE /dataset/{dataset_id}", dataset_id,
            ExceptHTTPExceptionThenException(
                IF delete_dataset_returns(metadata, dataset_id)
                THEN Returned([message |-> "Dataset deleted successfully"])
                ELSE HTTPException(404, "Dataset not found"),
                "Failed to delete dataset"))
    /\ deleted' = IF delete_dataset_returns(metadata, dataset_id)
                  THEN deleted \cup {dataset_id} ELSE deleted
    /\ metadata' = IF delete_dataset_returns(metadata, dataset_id)
                   THEN delete_dataset_metadata(metadata, dataset_id) ELSE metadata
    /\ uploads' = delete_dataset_files(metadata, uploads, dataset_id)
    /\ UNCHANGED <<logVars, usedIds, chat_history>>

\* upload.py: preview_dataset
GET_dataset_preview(dataset_id) ==
    /\ response' = Reply("GET /dataset/{dataset_id}/preview", dataset_id,
            ExceptHTTPExceptionThenException(
                IF get_dataset_preview(metadata, uploads, dataset_id) = PyNone
                THEN HTTPException(404, "Dataset not found")
                ELSE Returned(get_dataset_preview(metadata, uploads, dataset_id)),
                "Failed to preview dataset"))
    /\ UNCHANGED <<logVars, fileVars, chat_history>>

\* api/endpoints/statistics.py: calculate_basic_statistics
POST_statistics_basic(dataset_id, options) ==
    /\ response' = Reply("POST /statistics/basic", dataset_id,
            ExceptFileNotFoundThenException(
                calculate_basic_stats(metadata, uploads, dataset_id, options),
                "Statistics calculation failed"))
    /\ UNCHANGED <<logVars, fileVars, chat_history>>

\* statistics.py: calculate_advanced_statistics
POST_statistics_advanced(dataset_id, options) ==
    /\ response' = Reply("POST /statistics/advanced", dataset_id,
            ExceptFileNotFoundThenException(
                calculate_advanced_stats(metadata, uploads, dataset_id, options),
                "Advanced statistics calculation failed"))
    /\ UNCHANGED <<logVars, fileVars, chat_history>>

\* statistics.py: get_statistics_summary
GET_statistics_summary(dataset_id) ==
    /\ response' = Reply("GET /statistics/{dataset_id}/summary", dataset_id,
            ExceptFileNotFoundThenException(
                get_quick_summary(metadata, uploads, dataset_id),
                "Failed to generate summary"))
    /\ UNCHANGED <<logVars, fileVars, chat_history>>

\* statistics.py: validate_analysis_accuracy.  The 404 is raised inside the
\* try block; every basic option is then requested at once.
ValidateOutcome(dataset_id) ==
    IF ~Loadable(dataset_id) THEN HTTPException(404, "Dataset not found")
    ELSE IF IsRaised(calculate_basic_stats(metadata, uploads, dataset_id,
                        {BasicOptions[i] : i \in 1..Len(BasicOptions)}))
    THEN calculate_basic_stats(metadata, uploads, dataset_id,
                        {BasicOptions[i] : i \in 1..Len(BasicOptions)})
    ELSE Returned([kind |-> "validation_report", dataset_id |-> dataset_id])

POST_statistics_validate(dataset_id) ==
    /\ response' = Reply("POST /statistics/{dataset_id}/validate", dataset_id,
            ExceptFileNotFoundThenException(ValidateOutcome(dataset_id),
                                            "Analysis validation failed"))
    /\ UNCHANGED <<logVars, fileVars, chat_history>>

\* statistics.py: get_validation_metrics calls the handler above as a function.
GET_statistics_validation_metrics(dataset_id) ==
    /\ response' = Reply("GET /statistics/{dataset_id}/validation-metrics", dataset_id,
            ExceptException(
                ExceptFileNotFoundThenException(ValidateOutcome(dataset_id),
                                                "Analysis validation failed"),
                "Failed to get validation metrics"))
    /\ UNCHANGED <<logVars, fileVars, chat_history>>

\* api/endpoints/chat.py: chat_with_data
POST_chat(dataset_id, message, llm) ==
    /\ Loadable(dataset_id) => TotalChats < MaxHttpChats
    /\ response' = Reply("POST /chat", dataset_id,
            ExceptFileNotFoundThenException(
                ChatOutcome(metadata, uploads, dataset_id, message, llm),
                "Chat failed"))
    /\ chat_history' = ChatHistoryAfter(chat_history, metadata, uploads,
                                        dataset_id, message, llm)
    /\ UNCHANGED <<logVars, fileVars>>

\* chat.py: get_chat_history (limit defaults to 50)
GET_chat_history(dataset_id) ==
    /\ response' = Reply("GET /chat/{dataset_id}/history", dataset_id,
            ExceptException(
                Returned([dataset_id |-> dataset_id,
                          history |-> LastEntries(History(chat_history, dataset_id), 50)]),
                "Failed to retrieve chat history"))
    /\ UNCHANGED <<logVars, fileVars, chat_history>>

\* chat.py: clear_chat_history
DELETE_chat_history(dataset_id) ==
    /\ response' = Reply("DELETE /chat/{dataset_id}/history", dataset_id,
            ExceptException(
                Returned([message |-> "Chat history cleared successfully"]),
                "Failed to clear chat history"))
    /\ chat_history' = WithoutHistory(chat_history, dataset_id)
    /\ UNCHANGED <<logVars, fileVars>>

\* chat.py: get_chat_suggestions
POST_chat_suggestions(dataset_id) ==
    /\ response' = Reply("POST /chat/suggestions", dataset_id,
            ExceptFileNotFoundThenException(
                IF Loadable(dataset_id)
                THEN Returned([dataset_id |-> dataset_id, kind |-> "suggestions"])
                ELSE Raised("FileNotFoundError"),
                "Failed to generate suggestions"))
    /\ UNCHANGED <<logVars, fileVars, chat_history>>

\* api/endpoints/analysis.py: perform_full_analysis
POST_analysis_full(dataset_id, llm) ==
    /\ response' = Reply("POST /analysis/full", dataset_id,
            ExceptFileNotFoundThenException(
                FullAnalysisOutcome(metadata, uploads, dataset_id, llm),
                "Analysis failed"))
    /\ UNCHANGED <<logVars, fileVars, chat_history>>

\* api/endpoints/analysis_matrix.py: get_analysis_matrix.  The log of a
\* dataset is looked up by id alone.
GET_analysis_matrix(dataset_id) ==
    /\ response' = Reply("GET /analysis-matrix/{dataset_id}", dataset_id,
            ExceptException(
                IF IsRaised(get_analysis_matrix(dataset_id))
                THEN get_analysis_matrix(dataset_id)
                ELSE IF get_analysis_matrix(dataset_id) = NoMatrix
                THEN Returned([success |-> FALSE,
                               message |-> "No analysis history found for this dataset"])
                ELSE Returned([success |-> TRUE,
                               data |-> get_analysis_matrix(dataset_id)]),
                "Error retrieving analysis matrix"))
    /\ UNCHANGED <<logVars, fileVars, chat_history>>

\* analysis_matrix.py: record_analysis_endpoint.  Both HTTPExceptions are
\* raised inside the try block whose only handler is `except Exception`.
RecordOutcome(dataset_id, analysis_type) ==
    IF ~Loadable(dataset_id) THEN HTTPException(404, "Dataset not found")
    ELSE IF analysis_type \notin TypeValues
    THEN HTTPException(400, "Invalid analysis type")
    ELSE Returned([success |-> TRUE, message |-> "Analysis recorded successfully"])

POST_record_analysis(dataset_id, analysis_type, results) ==
    /\ ~IsRaised(RecordOutcome(dataset_id, analysis_type)) => TotalLogged < MaxHttpLogged
    /\ response' = Reply("POST /record-analysis/{dataset_id}", dataset_id,
            ExceptException(RecordOutcome(dataset_id, analysis_type),
                            "Error recording analysis"))
    /\ IF IsRaised(RecordOutcome(dataset_id, analysis_type))
       THEN UNCHANGED <<analysis_logs, logged>>
       ELSE LET score == validate_analysis(AnalysisTypeOf(analysis_type),
                                           results, NoParameters)
                record == AnalysisRecord(dataset_id, AnalysisTypeOf(analysis_type),
                                         score.overall_score)
            IN /\ analysis_logs' = WriteLog(dataset_id,
                                      LogContent(dataset_id) \o RecordLine(record))
               /\ logged' = [logged EXCEPT ![dataset_id] = Append(@, record)]
    /\ UNCHANGED <<writer, fileVars, chat_history>>

\* Whether f"uploads/{dataset_id}.csv" is there: regression and clustering
\* read this path and never the registry.
CsvExists(dataset_id) == UploadPath(dataset_id, ".csv") \in uploads

\* api/regression.py: regression_analysis
POST_advanced_regression(dataset_id) ==
    /\ response' = Reply("POST /advanced/regression", dataset_id,
            ExceptException(
                IF ~CsvExists(dataset_id)
                THEN HTTPException(404, "Dataset not found")
                ELSE Returned([kind |-> "regression", dataset_id |-> dataset_id]),
                "Dataset not found"))
    /\ UNCHANGED <<logVars, fileVars, chat_history>>

\* api/endpoints/clustering.py: perform_clustering_analysis; pd.read_csv
\* raises FileNotFoundError for a path that is not there.
POST_clustering_analyze(dataset_id) ==
    /\ response' = Reply("POST /clustering/analyze", dataset_id,
            ExceptException(
                IF ~CsvExists(dataset_id) THEN Raised("FileNotFoundError")
                ELSE Returned([kind |-> "clustering", dataset_id |-> dataset_id]),
                "Clustering analysis failed"))
    /\ UNCHANGED <<logVars, fileVars, chat_history>>

\* clustering.py: perform_anomaly_detection
POST_anomaly_detection_analyze(dataset_id) ==
    /\ response' = Reply("POST /anomaly-detection/analyze", dataset_id,
            ExceptException(
                IF ~CsvExists(dataset_id) THEN Raised("FileNotFoundError")
                ELSE Returned([kind |-> "anomalies", dataset_id |-> dataset_id]),
                "Anomaly detection failed"))
    /\ UNCHANGED <<logVars, fileVars, chat_history>>

\* api/endpoints/talk_to_data.py: talk_to_data raises its 404 before the try.
POST_talk_to_data(dataset_id) ==
    /\ response' = Reply("POST /talk-to-data", dataset_id,
            IF ~Loadable(dataset_id) THEN HTTPException(404, "Dataset not found")
            ELSE Returned([kind |-> "TalkToDataResponse"]))
    /\ UNCHANGED <<logVars, fileVars, chat_history>>

\* talk_to_data.py: talk_to_data_plot raises it inside.
POST_talk_to_data_plot(dataset_id) ==
    /\ response' = Reply("POST /talk-to-data/plot", dataset_id,
            ExceptException(
                IF ~Loadable(dataset_id) THEN HTTPException(404, "Dataset not found")
                ELSE Returned([kind |-> "TalkToDataResponse"]),
                "Internal server error"))
    /\ UNCHANGED <<logVars, fileVars, chat_history>>

InitHttp ==
    /\ analysis_logs = << >>
    /\ logged = [d \in Datasets |-> <<>>]
    /\ writer = << >>
    /\ metadata = << >>
    /\ uploads = {}
    /\ usedIds = {}
    /\ deleted = {}
    /\ chat_history = << >>
    /\ response = NoResponse

NextHttp ==
    \/ \E d \in Datasets, ext \in Extensions, readable \in BOOLEAN :
          POST_upload(d, ext, readable)
    \/ \E d \in Datasets : GET_dataset(d)
    \/ \E d \in Datasets : DELETE_dataset(d)
    \/ \E d \in Datasets : GET_dataset_preview(d)
    \/ \E d \in Datasets, options \in OptionSets : POST_statistics_basic(d, options)
    \/ \E d \in Datasets, options \in AdvancedOptionSets :
          POST_statistics_advanced(d, options)
    \/ \E d \in Datasets : GET_statistics_summary(d)
    \/ \E d \in Datasets : POST_statistics_validate(d)
    \/ \E d \in Datasets : GET_statistics_validation_metrics(d)
    \/ \E d \in Datasets, m \in Messages, llm \in LLMOutcomes : POST_chat(d, m, llm)
    \/ \E d \in Datasets : GET_chat_history(d)
    \/ \E d \in Datasets : DELETE_chat_history(d)
    \/ \E d \in Datasets : POST_chat_suggestions(d)
    \/ \E d \in Datasets, llm \in LLMOutcomes : POST_analysis_full(d, llm)
    \/ \E d \in Datasets : GET_analysis_matrix(d)
    \/ \E d \in Datasets, t \in RecordTypes, r \in ConcResults :
          POST_record_analysis(d, t, r)
    \/ \E d \in Datasets : POST_advanced_regression(d)
    \/ \E d \in Datasets : POST_clustering_analyze(d)
    \/ \E d \in Datasets : POST_anomaly_detection_analyze(d)
    \/ \E d \in Datasets : POST_talk_to_data(d)
    \/ \E d \in Datasets : POST_talk_to_data_plot(d)

SpecHttp == InitHttp /\ [][NextHttp]_vars

\* The request just served named a dataset load_dataset had nothing for.
ServedUnknownDataset ==
    /\ response'.op # "POST /upload"
    /\ response'.dataset_id \in Datasets
    /\ load_dataset(metadata, uploads, response'.dataset_id) = PyNone

\* C5: every endpoint that takes a dataset id answers a request naming a
\* dataset that is not registered or cannot be loaded with HTTP 404, never
\* with 500 and never with a 200 body.
C5_UnknownDatasetIs404 ==
    [][ServedUnknownDataset => response'.result.status_code = 404]_vars

\* The request just served named a dataset deleted before.
ServedDeleted(ops) ==
    /\ response'.op \in ops
    /\ response'.dataset_id \in deleted

\* C9: nothing is served from memory.  Once delete_dataset(id) has succeeded,
\* load_dataset(id) returns None in every later state, and every later
\* statistics, summary or chat request for id is answered dataset-not-found,
\* also when the id was analysed successfully before it was deleted.
C9_DeletedIsNotFound ==
    /\ [](\A d \in deleted : load_dataset(metadata, uploads, d) = PyNone)
    /\ [][ServedDeleted({"POST /statistics/basic", "POST /statistics/advanced",
                         "GET /statistics/{dataset_id}/summary", "POST /chat"})
            => /\ response'.result.status_code = 404
               /\ response'.result.body = [detail |-> "Dataset not found"]]_vars

\* A chat for a deleted dataset is answered 404 although a chat with the same
\* dataset succeeded before the deletion and is still in the history.
C9_Witness ==
    /\ response.op = "POST /chat"
    /\ response.dataset_id \in deleted
    /\ response.result.status_code = 404
    /\ Len(History(chat_history, response.dataset_id)) = 2

(***************************************************************************)
(* The chat service called directly: LLMService's public methods, with     *)
(* uploads and deletions going on around them.  `response` holds the last  *)
(* call, what the LLM did in it, and its outcome.                          *)
(***************************************************************************)

MaxChats == 2

Limits == {0, 1, 50}

Called(op, dataset_id, message, llm, outcome) ==
    [op |-> op, dataset_id |-> dataset_id, message |-> message, llm |-> llm,
     result |-> outcome]

chat_with_data(dataset_id, message, llm) ==
    /\ Loadable(dataset_id) => TotalChats < MaxChats
    /\ response' = Called("chat_with_data", dataset_id, message, llm,
                          ChatOutcome(metadata, uploads, dataset_id, message, llm))
    /\ chat_history' = ChatHistoryAfter(chat_history, metadata, uploads,
                                        dataset_id, message, llm)
    /\ UNCHANGED <<logVars, fileVars>>

perform_full_analysis(dataset_id, llm) ==
    /\ response' = Called("perform_full_analysis", dataset_id, None, llm,
                          FullAnalysisOutcome(metadata, uploads, dataset_id, llm))
    /\ UNCHANGED <<logVars, fileVars, chat_history>>

get_chat_history(dataset_id, limit) ==
    /\ response' = Called("get_chat_history", dataset_id, None, None,
                          Returned(LastEntries(History(chat_history, dataset_id), limit)))
    /\ UNCHANGED <<logVars, fileVars, chat_history>>

clear_chat_history(dataset_id) ==
    /\ response' = Called("clear_chat_history", dataset_id, None, None,
                          Returned(PyNone))
    /\ chat_history' = WithoutHistory(chat_history, dataset_id)
    /\ UNCHANGED <<logVars, fileVars>>

InitChat ==
    /\ analysis_logs = << >>
    /\ logged = [d \in Datasets |-> <<>>]
    /\ writer = << >>
    /\ metadata = << >>
    /\ uploads = {}
    /\ usedIds = {}
    /\ deleted = {}
    /\ chat_history = << >>
    /\ response = NoResponse

NextChat ==
    \/ \E d \in Datasets, ext \in Extensions, readable \in BOOLEAN :
          POST_upload(d, ext, readable)
    \/ \E d \in Datasets : DELETE_dataset(d)
    \/ \E d \in Datasets, m \in Messages, llm \in LLMOutcomes :
          chat_with_data(d, m, llm)
    \/ \E d \in Datasets, llm \in LLMOutcomes : perform_full_analysis(d, llm)
    \/ \E d \in Datasets, limit \in Limits : get_chat_history(d, limit)
    \/ \E d \in Datasets : clear_chat_history(d)

SpecChat == InitChat /\ [][NextChat]_vars

\* The last call reached the LLM and the LLM call raised.
LLMFailedIn(op) ==
    /\ response.op = op
    /\ response.llm = "raises"
    /\ Loadable(response.dataset_id)

LastTwo(history) == SubSeq(history, Len(history) - 1, Len(history))

\* C6: a failure of the LLM call is never raised to the caller.  chat_with_data
\* and perform_full_analysis return normally with the error string as the
\* response or insight text, and chat_with_data has stored the user message
\* and the error string, as the assistant message, at the end of the history.
C6_LLMFailureIsReturned ==
    /\ LLMFailedIn("chat_with_data") =>
          /\ response.result.kind = "returned"
          /\ response.result.value.response = "Error: APIError"
          /\ Len(History(chat_history, response.dataset_id)) >= 2
          /\ LastTwo(History(chat_history, response.dataset_id)) =
                << ChatEntry("user", response.message),
                   ChatEntry("assistant", "Error: APIError") >>
    /\ LLMFailedIn("perform_full_analysis") =>
          /\ response.result.kind = "returned"
          /\ response.result.value.llm_insights = "Error generating analysis: APIError"

C6_Witness ==
    /\ LLMFailedIn("chat_with_data")
    /\ response.result.kind = "returned"
    /\ Len(History(chat_history, response.dataset_id)) = 4
    /\ History(chat_history, response.dataset_id)[2].content = "completion"
    /\ History(chat_history, response.dataset_id)[4].content = "Error: APIError"

\* A chat_with_data call for dataset d has just returned.
ChatReturnedFor(d) ==
    /\ response'.op = "chat_with_data"
    /\ response'.dataset_id = d
    /\ response'.result.kind = "returned"

ChatHistoryStep ==
    \A d \in Datasets :
       /\ ChatReturnedFor(d) =>
             /\ History(chat_history', d) =
                   History(chat_history, d)
                      \o << ChatEntry("user", response'.message),
                            ChatEntry("assistant", response'.result.value.response) >>
             /\ \A o \in Datasets \ {d} :
                   History(chat_history', o) = History(chat_history, o)
       /\ Len(History(chat_history', d)) < Len(History(chat_history, d)) =>
             /\ response'.op = "clear_chat_history"
             /\ response'.dataset_id = d

\* C8: chat history is kept per dataset id and nothing is evicted.  Every
\* chat_with_data(d, m) that completes appends exactly two entries to d's
\* history, the user message m and then the assistant reply, and leaves every
\* other dataset's history as it was; the length of d's history decreases in
\* no step but a clear_chat_history(d).
C8_ChatHistoryGrowsByTwo == [][ChatHistoryStep]_vars

C8_Witness ==
    /\ response.op = "chat_with_data"
    /\ response.result.kind = "returned"
    /\ Len(History(chat_history, response.dataset_id)) = 4
    /\ History(chat_history, response.dataset_id)[1].content
          # History(chat_history, response.dataset_id)[3].content
    /\ \E o \in Datasets \ {response.dataset_id} : o \in deleted

(***************************************************************************)
(* StatisticsCalculator.calculate_basic_stats called directly with every   *)
(* combination of a few of its option keys.                                *)
(***************************************************************************)

StatOptions ==
    {"descriptive", "correlation", "distribution", "missing_data",
     "missing_value_analysis", "outlier_detection"}

calculate_basic_stats_call(dataset_id, options) ==
    /\ response' = [op |-> "calculate_basic_stats", dataset_id |-> dataset_id,
                    options |-> options,
                    result |-> calculate_basic_stats(metadata, uploads,
                                                     dataset_id, options)]
    /\ UNCHANGED <<logVars, fileVars, chat_history>>

calculate_advanced_stats_call(dataset_id, options) ==
    /\ response' = [op |-> "calculate_advanced_stats", dataset_id |-> dataset_id,
                    options |-> options,
                    result |-> calculate_advanced_stats(metadata, uploads,
                                                        dataset_id, options)]
    /\ UNCHANGED <<logVars, fileVars, chat_history>>

InitStats ==
    /\ analysis_logs = << >>
    /\ logged = [d \in Datasets |-> <<>>]
    /\ writer = << >>
    /\ metadata = << >>
    /\ uploads = {}
    /\ usedIds = {}
    /\ deleted = {}
    /\ chat_history = << >>
    /\ response = NoResponse

NextStats ==
    \/ \E d \in Datasets, ext \in Extensions, readable \in BOOLEAN :
          POST_upload(d, ext, readable)
    \/ \E d \in Datasets : DELETE_dataset(d)
    \/ \E d \in Datasets, options \in SUBSET StatOptions :
          calculate_basic_stats_call(d, options)
    \/ \E d \in Datasets, options \in SUBSET AdvancedOptions :
          calculate_advanced_stats_call(d, options)

SpecStats == InitStats /\ [][NextStats]_vars

\* What option o gives when it is requested alone.
Alone(dataset_id, o) == calculate_basic_stats(metadata, uploads, dataset_id, {o})

\* A field the result does not have counts as null.
Populated(result, f) ==
    f \in DOMAIN result.fields /\ result.fields[f] # PyNone

\* C7: calculate_basic_stats treats each option independently.  For a dataset
\* that loads and any set of valid option keys, the call returns a result in
\* which a field is populated if and only if its option was requested, and
\* each requested option's value is the one the option gives when requested
\* alone (so "descriptive" with "missing_value_analysis" or "outlier_detection"
\* gives the descriptive result of "descriptive" alone).
C7_OptionsIndependent ==
    (response.op = "calculate_basic_stats" /\ Loadable(response.dataset_id)) =>
        /\ response.result.kind = "returned"
        /\ \A o \in StatOptions :
              Populated(response.result.value, ResultField(o))
                 <=> o \in response.options
        /\ \A o \in response.options :
              /\ Alone(response.dataset_id, o).kind = "returned"
              /\ response.result.value.fields[ResultField(o)] =
                    Alone(response.dataset_id, o).value.fields[ResultField(o)]

\* "descriptive" requested together with "missing_value_analysis" on a dataset
\* that loads: the call raises ValueError and returns no descriptive result.
C7_Failing ==
    /\ response.op = "calculate_basic_stats"
    /\ Loadable(response.dataset_id)
    /\ response.options = {"descriptive", "missing_value_analysis"}
    /\ response.result = Raised("ValueError")

(***************************************************************************)
(* services/comprehensive_analysis_validator.py.  Scores are in hundredths *)
(* of a point, correlations and accuracies in hundredths.  A data frame is *)
(* described by what the validators read of it: the number of numeric      *)
(* columns, the number of rows, the mean of a numeric column and the       *)
(* correlation of the two numeric columns.                                 *)
(***************************************************************************)

Abs(x) == IF x < 0 THEN -x ELSE x
Max(a, b) == IF a >= b THEN a ELSE b

\* round(a / b, 0) for b > 0: to the nearest, a tie to the even one.
RoundDiv(a, b) ==
    LET q == a \div b
        r == a % b
    IN IF 2 * r > b THEN q + 1
       ELSE IF 2 * r < b THEN q
       ELSE IF q % 2 = 0 THEN q ELSE q + 1

\* _calculate_accuracy(reported, actual, tolerance=0.05), in hundredths.
calculate_accuracy(reported_value, actual_value) ==
    IF actual_value = 0
    THEN (IF reported_value = 0 THEN 100 ELSE 0)
    ELSE Max(0, 100 - (2000 * Abs(reported_value - actual_value)) \div Abs(actual_value))

Validation(quality_score) == [quality_score |-> quality_score]

\* _validate_descriptive_stats.  results.summary, when there, gives every
\* numeric column the same reported mean and the same `present` of the seven
\* required statistics, the mean among them.
validate_descriptive_stats_report(results, df) ==
    IF df.numeric_cols = 0 THEN Returned(Validation(0))
    ELSE LET mean_accuracy ==
                 IF results.summary THEN calculate_accuracy(results.mean, df.mean) ELSE 0
             completeness == IF results.summary THEN (results.present * 100) \div 7 ELSE 0
             methodology == IF results.additional_stats THEN 90 ELSE 80
         IN Returned(Validation(mean_accuracy * 40 + completeness * 40 + methodology * 20))

\* numeric_df.corr() for two columns, as the cells (col1, col2) it holds.
ActualCorr(df) == [cell \in {"11", "12", "21", "22"} |->
                      IF cell \in {"11", "22"} THEN 100 ELSE df.corr]

\* _validate_correlation_matrix.  The reported matrix gives `diag` on its
\* diagonal and `off` beside it.  Without the key 'correlation_matrix' the
\* name correlation_errors is read before it is bound (NameError).
validate_correlation_matrix(results, df) ==
    IF df.numeric_cols < 2 THEN Returned(Validation(0))
    ELSE IF ~results.correlation_matrix THEN Raised("NameError")
    ELSE LET actual_corr == ActualCorr(df)
             reported(cell) == IF cell \in {"11", "22"} THEN results.diag ELSE results.off
             error(cell) == Abs(actual_corr[cell] - reported(cell))
             sum_errors == error("11") + error("12") + error("21") + error("22")
             \* (1 - mean(errors)) * 100, in hundredths of a point
             accuracy_score == 10000 - 25 * sum_errors
             sample_size_adequate == IF df.rows >= 30 THEN 1 ELSE 0
             no_perfect_correlations ==
                 IF \E cell \in DOMAIN actual_corr : Abs(actual_corr[cell]) = 100
                 THEN 0 ELSE 1
             validity_score == ((sample_size_adequate + no_perfect_correlations) * 10000) \div 2
         IN Returned(Validation((accuracy_score * 6 + validity_score * 4) \div 10))

\* _validate_distribution_analysis: 0.8 once a numeric column with three
\* values or more is named in the results; a third for each method named.
validate_distribution_analysis(results, df) ==
    LET normality == IF df.numeric_cols > 0 /\ df.rows >= 3 /\ results.names_column
                     THEN 80 ELSE 0
    IN Returned(Validation(normality * 60 + (results.methods * 4000) \div 3))

\* _validate_missing_data_summary: 0.9 with the counts, 0.8 without; a
\* quarter for each of the four completeness checks.
validate_missing_data_summary(results, df) ==
    LET accuracy == IF results.missing_counts THEN 90 ELSE 80
    IN Returned(Validation(accuracy * 50 + results.checks * 1250))

\* The validators that return a fixed score.
FixedScore ==
    [missing_value_analysis |-> 8500, duplicates_analysis |-> 8800,
     type_integrity_validation |-> 9000, univariate_summaries |-> 8700,
     outlier_detection |-> 8900, feature_engineering_ideas |-> 8400,
     multicollinearity_assessment |-> 9100, dimensionality_insights |-> 8600,
     baseline_model_sanity |-> 8800, drift_stability_analysis |-> 8500,
     bias_fairness_flags |-> 8300, documentation_summary |-> 9200,
     reproducibility_info |-> 9000]

\* getattr(self, f'_validate_{analysis_type}')(results, df)
validator_method(analysis_type, results, df) ==
    CASE analysis_type = "descriptive_stats" -> validate_descriptive_stats_report(results, df)
      [] analysis_type = "correlation_matrix" -> validate_correlation_matrix(results, df)
      [] analysis_type = "distribution_analysis" -> validate_distribution_analysis(results, df)
      [] analysis_type = "missing_data_summary" -> validate_missing_data_summary(results, df)
      [] OTHER -> Returned(Validation(FixedScore[analysis_type]))

\* The try/except around each validator: a validator that raises is given 75.
Validate(analysis_type, results, df) ==
    IF IsRaised(validator_method(analysis_type, results, df))
    THEN Validation(7500)
    ELSE validator_method(analysis_type, results, df).value

RECURSIVE SumQuality(_, _)
SumQuality(validations, S) ==
    IF S = {} THEN 0
    ELSE LET x == CHOOSE y \in S : TRUE
         IN validations[x].quality_score + SumQuality(validations, S \ {x})

\* validate_analysis_results: every analysis present and not None is
\* validated; the overall score is round(total_score / analysis_count, 2).
validate_analysis_results(dataset_id, analysis_results, df) ==
    LET present == {a \in DOMAIN analysis_results : analysis_results[a] # PyNone}
        validations == [a \in present |-> Validate(a, analysis_results[a], df)]
    IN [dataset_id |-> dataset_id,
        analysis_validations |-> validations,
        overall_quality_score |->
            IF present = {} THEN 0
            ELSE RoundDiv(SumQuality(validations, present), Cardinality(present))]

\* The data frames and the analysis results the validator is given.
DataFrames ==
    [numeric_cols : {0, 1, 2}, rows : {2, 30}, mean : {0, 100}, corr : {-100, 100}]

DescriptiveResults ==
    {PyNone}
    \cup [summary : {TRUE}, mean : {100, 102}, present : {1, 7},
          additional_stats : {FALSE}]
    \cup [summary : {FALSE}, mean : {100}, present : {7}, additional_stats : {TRUE}]

CorrelationResults ==
    {PyNone}
    \cup [correlation_matrix : {TRUE}, diag : {100, -100}, off : {-100, 0, 100}]
    \cup [correlation_matrix : {FALSE}, diag : {100}, off : {0}]

DistributionResults ==
    {PyNone} \cup [names_column : BOOLEAN, methods : {0, 3}]

MissingDataResults ==
    {PyNone, [missing_counts |-> TRUE, checks |-> 4],
     [missing_counts |-> FALSE, checks |-> 0]}

FixedResults == {PyNone, [computed |-> TRUE]}

AnalysisResults ==
    [descriptive_stats : DescriptiveResults,
     correlation_matrix : CorrelationResults,
     distribution_analysis : DistributionResults,
     missing_data_summary : MissingDataResults,
     outlier_detection : FixedResults]

\* A call of validate_analysis_results, before and after it returned.
ValidatorCall(pc, dataset_id, analysis_results, df, report) ==
    [op |-> "validate_analysis_results", pc |-> pc, dataset_id |-> dataset_id,
     analysis_results |-> analysis_results, df |-> df, result |-> report]

validate_analysis_results_call ==
    /\ response.op = "validate_analysis_results"
    /\ response.pc = "called"
    /\ response' = ValidatorCall("returned", response.dataset_id,
                        response.analysis_results, response.df,
                        validate_analysis_results(response.dataset_id,
                            response.analysis_results, response.df))
    /\ UNCHANGED <<logVars, fileVars, chat_history>>

InitValidator ==
    /\ analysis_logs = << >>
    /\ logged = [d \in Datasets |-> <<>>]
    /\ writer = << >>
    /\ metadata = << >>
    /\ uploads = {}
    /\ usedIds = {}
    /\ deleted = {}
    /\ chat_history = << >>
    /\ response \in {ValidatorCall("called", "d1", a, df, PyNone) :
                        a \in AnalysisResults, df \in DataFrames}

NextValidator == validate_analysis_results_call

SpecValidator == InitValidator /\ [][NextValidator]_vars

InRange(score) == 0 <= score /\ score <= 10000

ValidatorReturned ==
    response.op = "validate_analysis_results" /\ response.pc = "returned"

\* C10: every per-analysis quality_score and the overall_quality_score of the
\* report of validate_analysis_results lie in [0, 100], for every dataset and
\* every analysis results, a reported correlation matrix that differs
\* arbitrarily from the actual correlations included.
C10_ScoresInRange ==
    ValidatorReturned =>
        /\ \A a \in DOMAIN response.result.analysis_validations :
              InRange(response.result.analysis_validations[a].quality_score)
        /\ InRange(response.result.overall_quality_score)

\* Two perfectly correlated columns and a reported matrix of -1 throughout:
\* the correlation score and, nothing else being reported, the overall score
\* are negative.
C10_Failing ==
    /\ ValidatorReturned
    /\ response.df.corr = 100
    /\ response.analysis_results.correlation_matrix =
          [correlation_matrix |-> TRUE, diag |-> -100, off |-> -100]
    /\ response.result.analysis_validations["correlation_matrix"].quality_score < 0
    /\ response.result.overall_quality_score < 0

(***************************************************************************)
(* AnalysisValidator.validate_analysis called with every analysis type,    *)
(* every results dictionary over the keys the validators look at, and a    *)
(* parameters dictionary with or without an integer window.                *)
(***************************************************************************)

ResultKeys ==
    {"mean", "median", "std", "count", "insights", "correlation_matrix",
     "p_values", "ma", "upper", "lower", "values"}

Windows == {5, 10, 15, 25, 50, 51}

ParameterDicts == {NoParameters} \cup {[k \in {"window"} |-> w] : w \in Windows}

ScoredTypes == {"DESCRIPTIVE_STATS", "CORRELATION", "BOLLINGER_BANDS", "CLUSTERING"}

ValidatorFrame(pc, analysis_type, results, parameters, score) ==
    [op |-> "validate_analysis", pc |-> pc, analysis_type |-> analysis_type,
     results |-> results, parameters |-> parameters, result |-> score]

validate_analysis_call ==
    /\ response.op = "validate_analysis"
    /\ response.pc = "called"
    /\ response' = ValidatorFrame("returned", response.analysis_type,
                        response.results, response.parameters,
                        validate_analysis(response.analysis_type,
                                          response.results, response.parameters))
    /\ UNCHANGED <<logVars, fileVars, chat_history>>

InitScoring ==
    /\ analysis_logs = << >>
    /\ logged = [d \in Datasets |-> <<>>]
    /\ writer = << >>
    /\ metadata = << >>
    /\ uploads = {}
    /\ usedIds = {}
    /\ deleted = {}
    /\ chat_history = << >>
    /\ response \in {ValidatorFrame("called", t, r, p, PyNone) :
                        t \in ScoredTypes, r \in SUBSET ResultKeys,
                        p \in ParameterDicts}

NextScoring == validate_analysis_call

SpecScoring == InitScoring /\ [][NextScoring]_vars

ScoreFields ==
    {"methodology_score", "completeness_score", "accuracy_score",
     "interpretation_score", "overall_score"}

One == 12600 * 100

Min(a, b) == IF a <= b THEN a ELSE b

\* self.weights, in hundredths
weights ==
    [statistical_accuracy |-> 25, completeness |-> 30,
     consistency |-> 25, efficiency |-> 20]

\* self.analysis_domains
analysis_domains ==
    [descriptive_stats |-> {"mean", "median", "std", "variance", "quartile", "distribution"},
     data_quality      |-> {"missing", "duplicate", "outlier", "integrity", "validity"},
     relationships     |-> {"correlation", "association", "dependency", "causation"},
     visualization     |-> {"chart", "plot", "graph", "visualization", "trend"},
     modeling          |-> {"feature", "prediction", "classification", "regression", "clustering"}]

DomainNames ==
    <<"descriptive_stats", "data_quality", "relationships", "visualization", "modeling">>

\* self.contradiction_pairs
contradiction_pairs ==
    << <<"high", "low">>, <<"strong", "weak">>, <<"significant", "insignificant">>,
       <<"positive", "negative">>, <<"increase", "decrease">>, <<"good", "poor">>,
       <<"normal", "abnormal">>, <<"balanced", "imbalanced">>, <<"stable", "unstable">> >>

\* self.efficiency_tiers, in dictionary order; times in seconds
efficiency_tiers ==
    << [tier |-> "excellent",  min_time |-> 0,  max_time |-> 2],
       [tier |-> "good",       min_time |-> 2,  max_time |-> 5],
       [tier |-> "acceptable", min_time |-> 5,  max_time |-> 10],
       [tier |-> "poor",       min_time |-> 10, max_time |-> 1000] >>

\* tier_scores of _calculate_efficiency
tier_scores ==
    [excellent |-> One, good |-> (One * 8) \div 10,
     acceptable |-> (One * 6) \div 10, poor |-> (One * 3) \div 10]

\* An LLM text is a sequence of phrases joined by single spaces.  A phrase is
\* its length in characters, the occurrences <<term, offset>> of the service's
\* keywords and antonym terms in its lower-cased text (as substrings, the way
\* Python's `in` and re.finditer find them) and the numeric tokens the number
\* pattern \b\d+\.?\d*%?\b finds in it, each with its bucket and its value in
\* tenths.
Phrase(len, terms, numbers) == [len |-> len, terms |-> terms, numbers |-> numbers]

NumToken(bucket, value) == [bucket |-> bucket, value |-> value]

\* "the mean is 42.0"
TheMeanIs42 == Phrase(16, {<<"mean", 4>>}, <<NumToken("decimals", 420)>>)

\* "high low high"
HighLowHigh == Phrase(13, {<<"high", 0>>, <<"low", 5>>, <<"high", 9>>}, << >>)

\* "strong", one hundred characters without any term, "weak"
StrongFarFromWeak == Phrase(112, {<<"strong", 0>>, <<"weak", 108>>}, << >>)

\* "insignificant": the term "significant" is a substring of its antonym
Insignificant == Phrase(13, {<<"insignificant", 0>>, <<"significant", 2>>}, << >>)

\* "a weak correlation"
WeakCorrelation == Phrase(18, {<<"weak", 2>>, <<"correlation", 7>>}, << >>)

\* "strong positive correlation"
StrongCorrelation ==
    Phrase(27, {<<"strong", 0>>, <<"positive", 7>>, <<"correlation", 16>>}, << >>)

\* "mean median missing outlier association dependency chart plot feature regression"
EveryDomain ==
    Phrase(80, {<<"mean", 0>>, <<"median", 5>>, <<"missing", 12>>, <<"outlier", 20>>,
                <<"association", 28>>, <<"dependency", 40>>, <<"chart", 51>>,
                <<"plot", 57>>, <<"feature", 62>>, <<"regression", 70>>}, << >>)

\* "about 40 rows"
FortyRows == Phrase(13, {}, <<NumToken("integers", 400)>>)

Phrases ==
    {TheMeanIs42, HighLowHigh, StrongFarFromWeak, Insignificant,
     WeakCorrelation, StrongCorrelation, EveryDomain, FortyRows}

RECURSIVE Offset(_, _)
\* the index of the first character of the i-th phrase of the text
Offset(text, i) == IF i = 1 THEN 0 ELSE Offset(text, i - 1) + text[i - 1].len + 1

\* [m.start() for m in re.finditer(term, response_lower)]
Positions(term, text) ==
    UNION {{Offset(text, i) + o[2] : o \in {x \in text[i].terms : x[1] = term}} :
           i \in DOMAIN text}

\* term in response_lower
Contains(term, text) == Positions(term, text) # {}

RECURSIVE Numbers(_)
\* re.findall(number_pattern, text)
Numbers(text) ==
    IF text = << >> THEN << >>
    ELSE text[1].numbers \o Numbers(Tail(text))

Buckets == {"percentages", "decimals", "integers"}

IsBucket(token, b) == token.bucket = b

_extract_numerical_claims(text) ==
    [b \in Buckets |-> SelectSeq(Numbers(text), LAMBDA token : IsBucket(token, b))]

\* values in tenths; tolerance 0.1
_is_numerically_close(claimed, actual) ==
    IF actual = 0 THEN Abs(claimed) <= 1
    ELSE 10 * Abs(claimed - actual) <= Abs(actual)

SetMin(S) == CHOOSE x \in S : \A y \in S : x <= y
SetMax(S) == CHOOSE x \in S : \A y \in S : x >= y

RECURSIVE FindAll(_, _, _, _)
\* len(re.findall(term + '.{0,20}correlation', text)): matches are found
\* left to right, do not overlap, and the gap is matched greedily
FindAll(term, width, text, from) ==
    LET ends(p) == {q \in Positions("correlation", text) :
                        p + width <= q /\ q <= p + width + 20}
        starts == {p \in Positions(term, text) : p >= from /\ ends(p) # {}}
    IN  IF starts = {} THEN 0
        ELSE 1 + FindAll(term, width, text, SetMax(ends(SetMin(starts))) + 11)

\* A dataframe as the service sees it: its numeric columns in order, the
\* mean of each (tenths) and the Pearson coefficient of each pair of columns
\* <<i, j>>, i < j (hundredths).
Frame(columns, mean, r) == [columns |-> columns, mean |-> mean, r |-> r]

ColumnPairs(columns) ==
    {p \in (DOMAIN columns) \X (DOMAIN columns) : p[1] < p[2]}

\* numeric_df.corr(): symmetric, unit diagonal
corr(df) ==
    [p \in (DOMAIN df.columns) \X (DOMAIN df.columns) |->
        IF p[1] = p[2] THEN 100
        ELSE df.r[<<Min(p[1], p[2]), Max(p[1], p[2])>>]]

\* np.sum(np.abs(corr_matrix.values) > 0.7) - len(corr_matrix)
StrongCells(df) ==
    Cardinality({p \in DOMAIN corr(df) : Abs(corr(df)[p]) > 70}) - Len(df.columns)

NoNumericColumns == Frame(<< >>, << >>, << >>)

OneColumn == Frame(<<"x">>, [c \in {"x"} |-> 423], << >>)

StronglyCorrelated ==
    Frame(<<"x", "y">>, [c \in {"x", "y"} |-> 1000], [p \in {<<1, 2>>} |-> 90])

WeaklyCorrelated ==
    Frame(<<"x", "y">>, [c \in {"x", "y"} |-> 423], [p \in {<<1, 2>>} |-> 20])

ValidatedFrames == {NoNumericColumns, OneColumn, StronglyCorrelated, WeaklyCorrelated}

Range(f) == {f[x] : x \in DOMAIN f}

\* StatisticsCalculator._prepare_ground_truth_stats: the keys are fixed
\* names and, for every numeric column, <column>_mean (the _std and
\* _skewness entries are formed the same way)
_prepare_ground_truth_stats(df) ==
    LET fixed == {"total_rows", "total_columns", "numeric_columns"}
        corrs == IF Len(df.columns) >= 2 THEN {"strong_correlations"} ELSE {}
        means == {c \o "_mean" : c \in Range(df.columns)}
        column(k) == CHOOSE c \in Range(df.columns) : c \o "_mean" = k
    IN  [k \in fixed \cup corrs \cup means |->
            IF k \in means THEN df.mean[column(k)]
            ELSE IF k = "strong_correlations" THEN StrongCells(df)
            ELSE IF k = "numeric_columns" THEN Len(df.columns)
            ELSE 10]

\* a ground truth keyed the way _calculate_statistical_accuracy looks it up
Keyed(bucket, value) == [k \in {bucket} |-> value]

GroundTruths ==
    {_prepare_ground_truth_stats(df) : df \in ValidatedFrames}
        \cup {Keyed("decimals", 423), Keyed("decimals", 1000), Keyed("integers", 0)}

ValidationMetric(raw_score, normalized_score, details) ==
    [raw_score |-> raw_score, normalized_score |-> normalized_score, details |-> details]

_validate_correlation_claims(text, df) ==
    IF Len(df.columns) < 2 THEN [total |-> 0, correct |-> 0]
    ELSE
        LET strong_corr_mentions == FindAll("strong", 6, text, 0)
            weak_corr_mentions == FindAll("weak", 4, text, 0)
            strong_correlations == StrongCells(df)
        IN  [total |-> strong_corr_mentions + weak_corr_mentions,
             correct |->
                (IF strong_corr_mentions > 0 /\ strong_correlations > 0
                 THEN strong_corr_mentions ELSE 0)
                + (IF weak_corr_mentions > 0 /\ strong_correlations = 0
                   THEN weak_corr_mentions ELSE 0)]

RECURSIVE CountClose(_, _)
\* the claimed values of one bucket that are close to the actual value
CountClose(claimed_values, actual_val) ==
    IF claimed_values = << >> THEN 0
    ELSE (IF _is_numerically_close(claimed_values[1].value, actual_val) THEN 1 ELSE 0)
         + CountClose(Tail(claimed_values), actual_val)

RECURSIVE SumOver(_, _)
\* the sum of f[x] over the elements x of a finite set
SumOver(f, S) ==
    IF S = {} THEN 0
    ELSE LET x == CHOOSE y \in S : TRUE IN f[x] + SumOver(f, S \ {x})

_calculate_statistical_accuracy(text, ground_truth, df) ==
    LET numerical_claims == _extract_numerical_claims(text)
        matched == Buckets \cap DOMAIN ground_truth
        claimed == [b \in matched |-> Len(numerical_claims[b])]
        close == [b \in matched |-> CountClose(numerical_claims[b], ground_truth[b])]
        correlation_accuracy == _validate_correlation_claims(text, df)
        total_claims == SumOver(claimed, matched) + correlation_accuracy.total
        correct_claims == SumOver(close, matched) + correlation_accuracy.correct
        accuracy_score ==
            IF total_claims > 0 THEN (correct_claims * One) \div total_claims ELSE One
    IN  ValidationMetric(accuracy_score, Min(accuracy_score, One),
            [total_claims |-> total_claims, correct_claims |-> correct_claims,
             correlation_validation |-> correlation_accuracy])

\* sum(1 for keyword in keywords if keyword in response_lower)
Mentions(domain, text) ==
    Cardinality({keyword \in analysis_domains[domain] : Contains(keyword, text)})

\* the coverage of a domain as the plain share of its keywords, without the
\* 30% threshold
coverage_score_share(domain, text) ==
    (Mentions(domain, text) * One) \div Cardinality(analysis_domains[domain])

\* min(mentions / (len(keywords) * 0.3), 1.0)
coverage_score(domain, text) ==
    Min((Mentions(domain, text) * 10 * One)
            \div (3 * Cardinality(analysis_domains[domain])), One)

RECURSIVE total_coverage(_, _)
total_coverage(domains, text) ==
    IF domains = << >> THEN 0
    ELSE coverage_score(domains[1], text) + total_coverage(Tail(domains), text)

_calculate_completeness(text) ==
    LET completeness_score == total_coverage(DomainNames, text) \div Len(DomainNames)
    IN  ValidationMetric(completeness_score, Min(completeness_score, One),
            [mentions |-> [d \in Range(DomainNames) |-> Mentions(d, text)]])

\* both terms of the pair occur in the text
Checked(pair, text) == Contains(pair[1], text) /\ Contains(pair[2], text)

\* the inner loop stops at the first close occurrence of term2, the outer
\* loop goes on: one contradiction for every occurrence of term1 that has an
\* occurrence of term2 fewer than 100 characters away
Contradictions(pair, text) ==
    Cardinality({pos1 \in Positions(pair[1], text) :
                    \E pos2 \in Positions(pair[2], text) : Abs(pos1 - pos2) < 100})

RECURSIVE total_checks(_, _)
total_checks(pairs, text) ==
    IF pairs = << >> THEN 0
    ELSE (IF Checked(pairs[1], text) THEN 1 ELSE 0) + total_checks(Tail(pairs), text)

RECURSIVE contradictions_detected(_, _)
contradictions_detected(pairs, text) ==
    IF pairs = << >> THEN 0
    ELSE (IF Checked(pairs[1], text) THEN Contradictions(pairs[1], text) ELSE 0)
         + contradictions_detected(Tail(pairs), text)

\* the consistency metric without the clamp at 0
_calculate_consistency_unclamped(text) ==
    LET checks == total_checks(contradiction_pairs, text)
        detected == contradictions_detected(contradiction_pairs, text)
        consistency_score ==
            IF checks > 0 THEN One - (detected * One) \div checks ELSE One
    IN  ValidationMetric(consistency_score, consistency_score,
            [contradictions_detected |-> detected, total_checks |-> checks])

_calculate_consistency(text) ==
    LET checks == total_checks(contradiction_pairs, text)
        detected == contradictions_detected(contradiction_pairs, text)
        consistency_score ==
            IF checks > 0 THEN One - (detected * One) \div checks ELSE One
    IN  ValidationMetric(consistency_score, Max(consistency_score, 0),
            [contradictions_detected |-> detected, total_checks |-> checks])

RECURSIVE FirstTier(_, _)
\* the first tier with min_time <= response_time < max_time, 'poor' if none
FirstTier(tiers, response_time) ==
    IF tiers = << >> THEN "poor"
    ELSE IF tiers[1].min_time <= response_time /\ response_time < tiers[1].max_time
         THEN tiers[1].tier
         ELSE FirstTier(Tail(tiers), response_time)

_calculate_efficiency(response_time) ==
    LET efficiency_tier == FirstTier(efficiency_tiers, response_time)
    IN  ValidationMetric(tier_scores[efficiency_tier], tier_scores[efficiency_tier],
            [response_time |-> response_time, efficiency_tier |-> efficiency_tier])

\* response_time in seconds, or None
Seconds(t) == [kind |-> "float", seconds |-> t]

\* response_time or (time.time() - start_time): None and 0 are both falsy
MeasuredOr(response_time, elapsed) ==
    IF response_time.kind = "None" THEN elapsed
    ELSE IF response_time.seconds = 0 THEN elapsed
    ELSE response_time.seconds

\* the plain mean of the four normalised scores
WeightedSum_unweighted(accuracy, completeness, consistency, efficiency) ==
    (accuracy + completeness + consistency + efficiency) \div 4

\* overall score: the weighted sum of the normalised scores
WeightedSum(accuracy, completeness, consistency, efficiency) ==
    (accuracy * weights.statistical_accuracy + completeness * weights.completeness
        + consistency * weights.consistency + efficiency * weights.efficiency) \div 100

\* elapsed is what time.time() - start_time measures when it is used
validate_llm_analysis(df, llm_response, ground_truth_stats, response_time, elapsed) ==
    LET statistical_accuracy ==
            _calculate_statistical_accuracy(llm_response, ground_truth_stats, df)
        completeness == _calculate_completeness(llm_response)
        consistency == _calculate_consistency(llm_response)
        efficiency == _calculate_efficiency(MeasuredOr(response_time, elapsed))
    IN  [kind |-> "ValidationResult",
         overall_score |->
            WeightedSum(statistical_accuracy.normalized_score,
                        completeness.normalized_score,
                        consistency.normalized_score,
                        efficiency.normalized_score),
         statistical_accuracy |-> statistical_accuracy,
         completeness |-> completeness,
         consistency |-> consistency,
         efficiency |-> efficiency]

MaxPhrases == 2     \* phrases in an LLM text

Texts == UNION {[1..n -> Phrases] : n \in 0..MaxPhrases}

ResponseTimes ==
    {PyNone} \cup {Seconds(t) : t \in {-1, 0, 1, 2, 4, 5, 9, 10, 999, 1000}}

\* what time.time() - start_time can measure, in seconds
ElapsedTimes == {0, 3}

LLMValidationFrame(pc, df, llm_response, ground_truth_stats, response_time, result) ==
    [op |-> "validate_llm_analysis", pc |-> pc, df |-> df,
     llm_response |-> llm_response, ground_truth_stats |-> ground_truth_stats,
     response_time |-> response_time, result |-> result]

validate_llm_analysis_call ==
    /\ response.op = "validate_llm_analysis"
    /\ response.pc = "called"
    /\ \E elapsed \in ElapsedTimes :
          response' = LLMValidationFrame("returned", response.df,
                          response.llm_response, response.ground_truth_stats,
                          response.response_time,
                          validate_llm_analysis(response.df, response.llm_response,
                              response.ground_truth_stats, response.response_time,
                              elapsed))
    /\ UNCHANGED <<logVars, fileVars, chat_history>>

InitLLMValidation ==
    /\ analysis_logs = << >>
    /\ logged = [d \in Datasets |-> <<>>]
    /\ writer = << >>
    /\ metadata = << >>
    /\ uploads = {}
    /\ usedIds = {}
    /\ deleted = {}
    /\ chat_history = << >>
    /\ response \in {LLMValidationFrame("called", df, text, gt, rt, PyNone) :
                        df \in ValidatedFrames, text \in Texts,
                        gt \in GroundTruths, rt \in ResponseTimes}

NextLLMValidation == validate_llm_analysis_call

SpecLLMValidation == InitLLMValidation /\ [][NextLLMValidation]_vars

LLMValidated == response.op = "validate_llm_analysis" /\ response.pc = "returned"

InUnit(score) == 0 <= score /\ score <= One

MetricNames == {"statistical_accuracy", "completeness", "consistency", "efficiency"}

\* C12: for every LLM text, ground truth and response time the result of
\* validate_llm_analysis carries the four metrics, each with a
\* normalized_score in [0,1], and an overall_score in [0,1].
C12_NormalizedScoresInUnit ==
    LLMValidated =>
        /\ MetricNames \subseteq DOMAIN response.result
        /\ \A name \in MetricNames : InUnit(response.result[name].normalized_score)
        /\ InUnit(response.result.overall_score)

\* "high low high" alone: the raw consistency is negative, the normalised one 0
C12_Witness ==
    /\ LLMValidated
    /\ response.llm_response = <<HighLowHigh>>
    /\ response.result.consistency.raw_score < 0
    /\ response.result.consistency.normalized_score = 0

\* the numeric tokens of the text that have a ground-truth value under the
\* name of their bucket
MatchedTokens(text, ground_truth) ==
    SelectSeq(Numbers(text), LAMBDA token : token.bucket \in DOMAIN ground_truth)

\* those of them within 10% of that value
CloseTokens(text, ground_truth) ==
    SelectSeq(MatchedTokens(text, ground_truth),
              LAMBDA token :
                  _is_numerically_close(token.value, ground_truth[token.bucket]))

\* C13: the statistical accuracy is correct_claims / total_claims, where
\* total_claims is the number of numeric tokens of the text with a matching
\* ground-truth value and correct_claims the number of those within 10% of
\* it; it is 1.0 when there is no such token, and correct_claims never
\* exceeds total_claims.
C13_AccuracyIsShareOfNumericTokens ==
    LLMValidated =>
        LET total == Len(MatchedTokens(response.llm_response, response.ground_truth_stats))
            correct == Len(CloseTokens(response.llm_response, response.ground_truth_stats))
            accuracy == response.result.statistical_accuracy
        IN  /\ correct <= total
            /\ accuracy.details.correct_claims <= accuracy.details.total_claims
            /\ total = 0 => accuracy.normalized_score = One
            /\ total > 0 => accuracy.normalized_score * total = correct * One

\* "a weak correlation" about two strongly correlated columns: no numeric
\* token in the text, yet one claim counted and none correct
C13_Failing ==
    /\ LLMValidated
    /\ response.llm_response = <<WeakCorrelation>>
    /\ response.df = StronglyCorrelated
    /\ Numbers(response.llm_response) = << >>
    /\ response.result.statistical_accuracy.details.total_claims = 1
    /\ response.result.statistical_accuracy.normalized_score = 0

\* the ground-truth keys under which _prepare_ground_truth_stats puts a mean
MeanKeys == {c \o "_mean" : c \in {"x", "y"}}

\* the ground truth has the mean v (tenths) for one of the columns
MeanIs(ground_truth, v) ==
    \E k \in MeanKeys \cap DOMAIN ground_truth : ground_truth[k] = v

\* C14: with the text "the mean is 42.0", a ground truth in which the mean
\* is 42.3 has the claim counted as a correct claim, and a ground truth in
\* which the mean is 100 has it counted as a claim that is not correct, so
\* that the statistical accuracy is below 1.0.
C14_MeanClaimIsChecked ==
    (LLMValidated /\ response.llm_response = <<TheMeanIs42>>) =>
        LET accuracy == response.result.statistical_accuracy
        IN  /\ MeanIs(response.ground_truth_stats, 423) =>
                accuracy.details.correct_claims >= 1
            /\ MeanIs(response.ground_truth_stats, 1000) =>
                /\ accuracy.details.total_claims > accuracy.details.correct_claims
                /\ accuracy.normalized_score < One

\* "the mean is 42.0" against the ground truth of a dataframe whose means
\* are 100: no claim is counted and the accuracy is 1.0
C14_Failing ==
    /\ LLMValidated
    /\ response.llm_response = <<TheMeanIs42>>
    /\ response.ground_truth_stats = _prepare_ground_truth_stats(StronglyCorrelated)
    /\ MeanIs(response.ground_truth_stats, 1000)
    /\ response.result.statistical_accuracy.details.total_claims = 0
    /\ response.result.statistical_accuracy.normalized_score = One

\* an occurrence of the first term of the pair lies fewer than 100
\* characters from an occurrence of the second
Contradictory(pair, text) ==
    \E pos1 \in Positions(pair[1], text), pos2 \in Positions(pair[2], text) :
        Abs(pos1 - pos2) < 100

CheckedPairs(text) ==
    {i \in DOMAIN contradiction_pairs : Checked(contradiction_pairs[i], text)}

ContradictoryPairs(text) ==
    {i \in CheckedPairs(text) : Contradictory(contradiction_pairs[i], text)}

\* C15: the consistency of a text is 1 - contradictions/checks (1.0 when
\* checks = 0), where every antonym pair with both terms in the text is one
\* check and a pair with an occurrence of its first term fewer than 100
\* characters from an occurrence of its second is one contradiction.
C15_OneContradictionPerPair ==
    LLMValidated =>
        LET checks == Cardinality(CheckedPairs(response.llm_response))
            contradictions == Cardinality(ContradictoryPairs(response.llm_response))
            consistency == response.result.consistency
        IN  /\ checks = 0 => consistency.normalized_score = One
            /\ checks > 0 =>
                consistency.normalized_score * checks = (checks - contradictions) * One

\* "high low high" and a "strong" far from its "weak": two checks, one
\* contradictory pair, two contradictions counted, consistency 0 and not 0.5
C15_Failing ==
    /\ LLMValidated
    /\ response.llm_response = <<HighLowHigh, StrongFarFromWeak>>
    /\ Cardinality(CheckedPairs(response.llm_response)) = 2
    /\ Cardinality(ContradictoryPairs(response.llm_response)) = 1
    /\ response.result.consistency.details.contradictions_detected = 2
    /\ response.result.consistency.normalized_score = 0

\* the number of the domain's keywords that occur in the text
Hits(domain, text) ==
    Cardinality({k \in analysis_domains[domain] : Positions(k, text) # {}})

\* hits / (0.3 * domain_size) >= 1
Covered(domain, text) == 10 * Hits(domain, text) >= 3 * Cardinality(analysis_domains[domain])

\* min(hits / (0.3 * domain_size), 1.0)
DomainShare(domain, text) ==
    IF Covered(domain, text) THEN One
    ELSE (10 * Hits(domain, text) * One) \div (3 * Cardinality(analysis_domains[domain]))

\* C16: the completeness of a text is the mean over the five domains of
\* min(hits / (0.3 * domain_size), 1.0), hits being the number of the
\* domain's keywords that occur in the text; it is 0 for a text with no
\* keyword and 1.0 as soon as every domain reaches 30% keyword coverage.
C16_CompletenessIsMeanCoverage ==
    LLMValidated =>
        LET text == response.llm_response
            completeness == response.result.completeness.normalized_score
        IN  /\ DOMAIN analysis_domains = Range(DomainNames) /\ Len(DomainNames) = 5
            /\ 5 * completeness =
                  DomainShare("descriptive_stats", text) + DomainShare("data_quality", text)
                    + DomainShare("relationships", text) + DomainShare("visualization", text)
                    + DomainShare("modeling", text)
            /\ (\A d \in DOMAIN analysis_domains : Hits(d, text) = 0) => completeness = 0
            /\ (\A d \in DOMAIN analysis_domains : Covered(d, text)) => completeness = One

\* two keywords of every domain: each coverage is capped at 1.0
C16_Witness ==
    /\ LLMValidated
    /\ response.llm_response = <<EveryDomain>>
    /\ \A d \in DOMAIN analysis_domains : Hits(d, response.llm_response) = 2
    /\ response.result.completeness.normalized_score = One

\* the score the four tiers give a latency of t seconds
TierScore(t) ==
    IF t < 2 THEN One
    ELSE IF t < 5 THEN (One * 8) \div 10
    ELSE IF t < 10 THEN (One * 6) \div 10
    ELSE (One * 3) \div 10

\* the latencies the callers below supply; a latency is not negative
SuppliedSeconds == {rt.seconds : rt \in {x \in ResponseTimes \ {PyNone} : x.seconds >= 0}}

\* C17: the efficiency is a four-tier function of the latency t the caller
\* supplies: 1.0 for t < 2, 0.8 for 2 <= t < 5, 0.6 for 5 <= t < 10 and 0.3
\* for every t >= 10; the score is non-increasing in t.
C17_EfficiencyIsTierOfSuppliedTime ==
    (LLMValidated /\ response.response_time.kind = "float"
                  /\ response.response_time.seconds \in SuppliedSeconds) =>
        /\ response.result.efficiency.normalized_score
              = TierScore(response.response_time.seconds)
        /\ \A t \in SuppliedSeconds :
              t >= response.response_time.seconds =>
                  _calculate_efficiency(t).normalized_score
                      <= response.result.efficiency.normalized_score

\* the caller supplies a latency of 0 seconds, the validation itself takes
\* 3 seconds, and the efficiency is 0.8
C17_Failing ==
    /\ LLMValidated
    /\ response.response_time = Seconds(0)
    /\ response.result.efficiency.details.response_time = 3
    /\ response.result.efficiency.normalized_score = (One * 8) \div 10

\* the four normalised metric scores of a result
MetricScores(result) == {result[name].normalized_score : name \in MetricNames}

Loaded(dataset_id) == load_dataset(metadata, uploads, dataset_id)

\* the precondition of the analysis an option requests is not met
Unmet(option, df) ==
    CASE option \in {"correlation", "pca", "regression"} -> df.numeric < 2
      [] option \in {"descriptive", "distribution", "outlier_detection",
                     "anomaly_detection"} -> df.numeric = 0
      [] option = "clustering" -> df.rows < 4
      [] OTHER -> FALSE

\* the attribute of the response the option's result goes to
FieldOf(op, option) ==
    IF op = "calculate_basic_stats" THEN ResultField(option) ELSE AdvancedField(option)

StatsCalled ==
    /\ response.op \in {"calculate_basic_stats", "calculate_advanced_stats"}
    /\ Loadable(response.dataset_id)

\* C19: when the precondition of a requested analysis is not met by the
\* loaded dataset (fewer than 2 numeric columns for correlation, PCA or
\* regression; no numeric column for descriptive, distribution, outlier or
\* anomaly analysis; fewer than 4 rows for clustering), the analysis gives a
\* {"message": ...} placeholder as that option's result and nothing is
\* raised: the request succeeds.
C19_UnmetPreconditionGivesPlaceholder ==
    StatsCalled =>
        \A o \in response.options :
            Unmet(o, Loaded(response.dataset_id)) =>
                /\ response.result.kind = "returned"
                /\ FieldOf(response.op, o) \in DOMAIN response.result.value.fields
                /\ response.result.value.fields[FieldOf(response.op, o)].kind
                      = "placeholder"

\* outlier detection alone on a dataset without a numeric column: the
\* function gives its placeholder, and the request raises ValueError
C19_Failing ==
    /\ response.op = "calculate_basic_stats"
    /\ Loadable(response.dataset_id)
    /\ response.options = {"outlier_detection"}
    /\ Loaded(response.dataset_id).numeric = 0
    /\ _calculate_outlier_detection(Loaded(response.dataset_id)).kind = "placeholder"
    /\ response.result = Raised("ValueError")

(***************************************************************************)
(* StatisticsCalculator._calculate_correlation_analysis on the correlation *)
(* matrix of a dataframe with at least 2 numeric columns.  Coefficients    *)
(* are in hundredths.                                                      *)
(***************************************************************************)

_get_correlation_strength(corr_val) ==
    IF Abs(corr_val) >= 90 THEN "Very Strong"
    ELSE IF Abs(corr_val) >= 70 THEN "Strong"
    ELSE IF Abs(corr_val) >= 50 THEN "Moderate"
    ELSE IF Abs(corr_val) >= 30 THEN "Weak"
    ELSE "Very Weak"

\* correlation_entry for columns i < j
correlation_entry(df, i, j) ==
    [var1 |-> df.columns[i], var2 |-> df.columns[j],
     correlation |-> corr(df)[<<i, j>>],
     strength |-> _get_correlation_strength(corr(df)[<<i, j>>]),
     direction |-> IF corr(df)[<<i, j>>] > 0 THEN "positive" ELSE "negative",
     abs_correlation |-> Abs(corr(df)[<<i, j>>])]

RECURSIVE EntriesFrom(_, _, _)
\* the entries the two loops append from (i, j) on
EntriesFrom(df, i, j) ==
    IF i > Len(df.columns) THEN << >>
    ELSE IF j > Len(df.columns) THEN EntriesFrom(df, i + 1, i + 2)
    ELSE <<correlation_entry(df, i, j)>> \o EntriesFrom(df, i, j + 1)

all_correlations(df) == EntriesFrom(df, 1, 2)

IsStrong(entry) == entry.abs_correlation > 70

RECURSIVE SortedByAbs(_)
\* list.sort(key=abs_correlation, reverse=True): stable
SortedByAbs(entries) ==
    IF entries = << >> THEN << >>
    ELSE LET top == SetMax({entries[k].abs_correlation : k \in DOMAIN entries})
             first == SetMin({k \in DOMAIN entries : entries[k].abs_correlation = top})
         IN  <<entries[first]>>
                \o SortedByAbs(SubSeq(entries, 1, first - 1)
                                 \o SubSeq(entries, first + 1, Len(entries)))

strong_correlations(df) == SortedByAbs(SelectSeq(all_correlations(df), IsStrong))

correlation_analysis(df) ==
    [kind |-> "correlation_analysis",
     all_correlations |-> all_correlations(df),
     strong_correlations |-> strong_correlations(df),
     correlation_summary |->
        [total_pairs |-> Len(all_correlations(df)),
         strong_correlations_count |-> Len(strong_correlations(df))]]

\* the coefficients the dataframes of the model have
Coefficients == {-95, -70, 0, 50, 70, 71, 90}

NoMeans == << >>

CorrelatedFrames ==
    {Frame(<<"x", "y">>, NoMeans, [p \in {<<1, 2>>} |-> c]) : c \in Coefficients}
        \cup {Frame(<<"x", "y", "z">>, NoMeans, r) :
                 r \in [ColumnPairs(<<"x", "y", "z">>) -> Coefficients]}

CorrelationFrame(pc, df, result) ==
    [op |-> "_calculate_correlation_analysis", pc |-> pc, df |-> df, result |-> result]

correlation_analysis_call ==
    /\ response.op = "_calculate_correlation_analysis"
    /\ response.pc = "called"
    /\ response' = CorrelationFrame("returned", response.df,
                                    correlation_analysis(response.df))
    /\ UNCHANGED <<logVars, fileVars, chat_history>>

InitCorrelation ==
    /\ analysis_logs = << >>
    /\ logged = [d \in Datasets |-> <<>>]
    /\ writer = << >>
    /\ metadata = << >>
    /\ uploads = {}
    /\ usedIds = {}
    /\ deleted = {}
    /\ chat_history = << >>
    /\ response \in {CorrelationFrame("called", df, PyNone) : df \in CorrelatedFrames}

NextCorrelation == correlation_analysis_call

SpecCorrelation == InitCorrelation /\ [][NextCorrelation]_vars

CorrelationAnalysed ==
    response.op = "_calculate_correlation_analysis" /\ response.pc = "returned"

\* the unordered column pairs of the dataframe with |r| > 0.7
PairsAbove(df) ==
    {<<df.columns[p[1]], df.columns[p[2]]>> :
        p \in {q \in ColumnPairs(df.columns) : Abs(df.r[q]) > 70}}

\* C20: for a dataframe with at least 2 numeric columns the
\* strong_correlations list holds exactly the unordered column pairs with
\* |r| > 0.7, each once, and a pair is labelled "Strong" or "Very Strong" if
\* and only if it is in that list.
C20_StrongListMatchesStrongLabel ==
    CorrelationAnalysed =>
        LET strong == response.result.strong_correlations
            all == response.result.all_correlations
        IN  /\ {<<e.var1, e.var2>> : e \in Range(strong)} = PairsAbove(response.df)
            /\ Len(strong) = Cardinality(PairsAbove(response.df))
            /\ \A e \in Range(all) :
                  e.strength \in {"Strong", "Very Strong"} <=> e \in Range(strong)

\* a pair with r = 0.7 exactly: labelled "Strong", not in the list
C20_Failing ==
    /\ CorrelationAnalysed
    /\ \E e \in Range(response.result.all_correlations) :
          /\ e.correlation = 70
          /\ e.strength = "Strong"
          /\ e \notin Range(response.result.strong_correlations)

(***************************************************************************)
(* Outlier detection on one numeric column (StatisticsCalculator           *)
(* ._detect_column_outliers, ._detect_univariate_outliers).  A column is a *)
(* sequence of integers.                                                   *)
(***************************************************************************)

RECURSIVE Sorted(_)
\* the values of the column in ascending order
Sorted(data) ==
    IF data = << >> THEN << >>
    ELSE LET least == SetMin(Range(data))
             k == SetMin({i \in DOMAIN data : data[i] = least})
         IN  <<least>> \o Sorted(SubSeq(data, 1, k - 1) \o SubSeq(data, k + 1, Len(data)))

\* data.quantile(q) for q = quarters / 4, linear interpolation between the
\* two nearest order statistics; the result is in quarters of a unit
Quantile4(data, quarters) ==
    LET s == Sorted(data)
        h == (Len(data) - 1) * quarters
        lo == h \div 4 + 1
        hi == IF lo < Len(data) THEN lo + 1 ELSE lo
    IN  4 * s[lo] + (h % 4) * (s[hi] - s[lo])

\* q1 - 1.5 * iqr and q3 + 1.5 * iqr, in eighths of a unit
lower_bound8(data) ==
    2 * Quantile4(data, 1) - 3 * (Quantile4(data, 3) - Quantile4(data, 1))

upper_bound8(data) ==
    2 * Quantile4(data, 3) + 3 * (Quantile4(data, 3) - Quantile4(data, 1))

\* (data < lower_bound) | (data > upper_bound), with the fences included
iqr_outliers_closed(data) ==
    {i \in DOMAIN data :
        8 * data[i] <= lower_bound8(data) \/ 8 * data[i] >= upper_bound8(data)}

\* (data < lower_bound) | (data > upper_bound): the indices flagged
iqr_outliers(data) ==
    {i \in DOMAIN data :
        8 * data[i] < lower_bound8(data) \/ 8 * data[i] > upper_bound8(data)}

\* data.median(), np.median: doubled, so that the mean of the two middle
\* values of an even number of values stays an integer
Median2(values) ==
    LET s == Sorted(values)
        n == Len(values)
    IN  IF n % 2 = 1 THEN 2 * s[(n + 1) \div 2] ELSE s[n \div 2] + s[n \div 2 + 1]

\* np.abs(data - median), doubled
Deviations2(data) == [i \in DOMAIN data |-> Abs(2 * data[i] - Median2(data))]

\* mad = np.median(np.abs(data - median)), times four
mad4(data) == Median2(Deviations2(data))

\* the modified Z-score flags without the check of mad > 0: dividing by a
\* mad of 0 gives inf (flagged) and 0 / 0 gives nan (not flagged)
mod_zscore_outliers_unguarded(data) ==
    {i \in DOMAIN data : 2 * 6745 * Deviations2(data)[i] > 35000 * mad4(data)}

\* np.abs(0.6745 * (data - median) / mad) > 3.5 if mad > 0, nothing otherwise
mod_zscore_outliers(data) ==
    IF mad4(data) > 0
    THEN {i \in DOMAIN data : 2 * 6745 * Deviations2(data)[i] > 35000 * mad4(data)}
    ELSE {}

\* the "iqr" and "modified_zscore" entries of methods
_detect_column_outliers(data) ==
    [kind |-> "outliers",
     iqr |-> [outlier_count |-> Cardinality(iqr_outliers(data)),
              lower_bound8 |-> lower_bound8(data),
              upper_bound8 |-> upper_bound8(data),
              outlier_indices |-> iqr_outliers(data)],
     modified_zscore |-> [outlier_count |-> Cardinality(mod_zscore_outliers(data)),
                          outlier_indices |-> mod_zscore_outliers(data)]]

MaxColumn == 5      \* values in a column

ColumnValues == {-20, 10, 20, 30, 60, 1000}

Columns == UNION {[1..n -> ColumnValues] : n \in 1..MaxColumn}

OutlierFrame(pc, data, result) ==
    [op |-> "_detect_column_outliers", pc |-> pc, data |-> data, result |-> result]

detect_column_outliers_call ==
    /\ response.op = "_detect_column_outliers"
    /\ response.pc = "called"
    /\ response' = OutlierFrame("returned", response.data,
                                _detect_column_outliers(response.data))
    /\ UNCHANGED <<logVars, fileVars, chat_history>>

InitOutliers ==
    /\ analysis_logs = << >>
    /\ logged = [d \in Datasets |-> <<>>]
    /\ writer = << >>
    /\ metadata = << >>
    /\ uploads = {}
    /\ usedIds = {}
    /\ deleted = {}
    /\ chat_history = << >>
    /\ response \in {OutlierFrame("called", data, PyNone) : data \in Columns}

NextOutliers == detect_column_outliers_call

SpecOutliers == InitOutliers /\ [][NextOutliers]_vars

OutliersDetected == response.op = "_detect_column_outliers" /\ response.pc = "returned"

\* the first and third quartile of a column, in quarters: the value at
\* position (n - 1) * q of the sorted column, interpolated linearly
Quartile4(data, q) ==
    LET s == Sorted(data)
        whole == ((Len(data) - 1) * q) \div 4
        part == ((Len(data) - 1) * q) % 4
    IN  IF part = 0 THEN 4 * s[whole + 1]
        ELSE (4 - part) * s[whole + 1] + part * s[whole + 2]

\* C21: the IQR method computes lower = Q1 - 1.5 * IQR and
\* upper = Q3 + 1.5 * IQR with IQR = Q3 - Q1 and flags exactly the values
\* outside the closed interval [lower, upper]: a value equal to a fence is
\* not flagged.  For the column [10, 20, 30, 1000] it flags 1000 only.
C21_IqrFlagsOutsideFences ==
    OutliersDetected =>
        LET data == response.data
            Q1 == Quartile4(data, 1)
            Q3 == Quartile4(data, 3)
            lower8 == 2 * Q1 - 3 * (Q3 - Q1)
            upper8 == 2 * Q3 + 3 * (Q3 - Q1)
            iqr == response.result.iqr
        IN  /\ iqr.lower_bound8 = lower8 /\ iqr.upper_bound8 = upper8
            /\ iqr.outlier_indices =
                  {i \in DOMAIN data : ~(lower8 <= 8 * data[i] /\ 8 * data[i] <= upper8)}
            /\ iqr.outlier_count = Cardinality(iqr.outlier_indices)
            /\ data = <<10, 20, 30, 1000>> => iqr.outlier_indices = {4}

\* [-20, 10, 20, 30, 60]: Q1 = 10, Q3 = 30, fences -20 and 60, both in the
\* column and neither flagged
C21_Witness ==
    /\ OutliersDetected
    /\ response.data = <<-20, 10, 20, 30, 60>>
    /\ response.result.iqr.lower_bound8 = -160
    /\ response.result.iqr.upper_bound8 = 480
    /\ response.result.iqr.outlier_indices = {}

\* the column with the constant c added to every value
Shifted(data, c) == [i \in DOMAIN data |-> data[i] + c]

Shifts == {-7, 1, 1000}

\* C23: the modified Z-score outlier count of a column (median and MAD
\* based, threshold 3.5, 0 when MAD = 0) does not change when the same
\* constant is added to every value of the column.
C23_ModifiedZScoreShiftInvariant ==
    OutliersDetected =>
        /\ mad4(response.data) = 0 => response.result.modified_zscore.outlier_count = 0
        /\ \A c \in Shifts :
              response.result.modified_zscore.outlier_count
                  = _detect_column_outliers(Shifted(response.data, c))
                        .modified_zscore.outlier_count

\* [10, 20, 30, 1000]: median 25, MAD 10, 1000 is the one outlier, and
\* [1010, 1020, 1030, 2000] has one as well
C23_Witness ==
    /\ OutliersDetected
    /\ response.data = <<10, 20, 30, 1000>>
    /\ response.result.modified_zscore.outlier_indices = {4}
    /\ mad4(response.data) = 40
    /\ mod_zscore_outliers(Shifted(response.data, 1000)) = {4}

\* ---------------------------------------------------------------------
\* Distribution classification. Skewness and excess kurtosis are in
\* hundredths.
\* ---------------------------------------------------------------------

\* statistics_calculator.py, distribution analysis
_classify_distribution(skewness, kurtosis) ==
    LET skew_type == IF Abs(skewness) < 50 THEN "symmetric"
                     ELSE IF skewness > 50 THEN "right-skewed"
                     ELSE "left-skewed"
        kurt_type == IF kurtosis > 300 THEN "heavy-tailed"
                     ELSE IF kurtosis < -100 THEN "light-tailed"
                     ELSE "normal-tailed"
    IN  [kind |-> "shape", skew |-> skew_type, kurt |-> kurt_type]

\* statistics_calculator.py, univariate summaries
_classify_distribution_shape(skewness, kurtosis) ==
    LET skew_desc == IF Abs(skewness) < 50 THEN "approximately symmetric"
                     ELSE IF skewness > 50 THEN "right-skewed (positive)"
                     ELSE "left-skewed (negative)"
        kurt_desc == IF kurtosis > 100 THEN "heavy-tailed (leptokurtic)"
                     ELSE IF kurtosis < -100 THEN "light-tailed (platykurtic)"
                     ELSE "normal-tailed (mesokurtic)"
    IN  [kind |-> "shape", skew |-> skew_desc, kurt |-> kurt_desc]

\* llm_validation_service.py, Fisher's skewness interpretation
_interpret_skewness(skewness) ==
    [kind |-> "skew",
     skew |-> IF Abs(skewness) < 50 THEN "approximately symmetric"
              ELSE IF skewness > 50 THEN "positively skewed (right tail)"
              ELSE "negatively skewed (left tail)"]

\* llm_service.py, the distributions of the LLM summary
_analyze_distributions(skewness) ==
    [kind |-> "skew",
     skew |-> IF Abs(skewness) < 50 THEN "symmetric"
              ELSE IF skewness > 50 THEN "right-skewed"
              ELSE "left-skewed"]

Classifiers ==
    {"_classify_distribution", "_classify_distribution_shape",
     "_interpret_skewness", "_analyze_distributions"}

Classified(op, skewness, kurtosis) ==
    CASE op = "_classify_distribution" -> _classify_distribution(skewness, kurtosis)
      [] op = "_classify_distribution_shape" -> _classify_distribution_shape(skewness, kurtosis)
      [] op = "_interpret_skewness" -> _interpret_skewness(skewness)
      [] OTHER -> _analyze_distributions(skewness)

Skewnesses == {-120, -50, -49, 0, 49, 50, 51, 120}
Kurtoses == {-150, -100, 0, 100, 200, 300, 350}

ClassifierFrame ==
    {[op |-> op, pc |-> "called", skewness |-> s, kurtosis |-> k, result |-> PyNone] :
        op \in Classifiers, s \in Skewnesses, k \in Kurtoses}

classify_call ==
    /\ response.op \in Classifiers
    /\ response.pc = "called"
    /\ response' = [response EXCEPT
                       !.pc = "returned",
                       !.result = Classified(response.op, response.skewness,
                                             response.kurtosis)]
    /\ UNCHANGED <<logVars, fileVars, chat_history>>

InitDistribution ==
    /\ analysis_logs = << >>
    /\ logged = [d \in Datasets |-> << >>]
    /\ writer = << >>
    /\ metadata = << >>
    /\ uploads = {}
    /\ usedIds = {}
    /\ deleted = {}
    /\ chat_history = << >>
    /\ response \in ClassifierFrame

NextDistribution == classify_call

SpecDistribution == InitDistribution /\ [][NextDistribution]_vars

DistributionClassified ==
    /\ response.op \in Classifiers
    /\ response.pc = "returned"

\* the names each classifier gives to the three skewness buckets and to
\* the three tail buckets
SkewBucket(label) ==
    CASE label \in {"symmetric", "approximately symmetric"} -> "symmetric"
      [] label \in {"right-skewed", "right-skewed (positive)",
                    "positively skewed (right tail)"} -> "right-skewed"
      [] OTHER -> "left-skewed"

TailBucket(label) ==
    CASE label \in {"heavy-tailed", "heavy-tailed (leptokurtic)"} -> "heavy-tailed"
      [] label \in {"light-tailed", "light-tailed (platykurtic)"} -> "light-tailed"
      [] OTHER -> "normal-tailed"

\* C22: every classifier puts a column in the skewness bucket given by
\* |skew| < 0.5 symmetric, skew >= 0.5 right-skewed, skew <= -0.5
\* left-skewed, and, where it classifies tails, in the tail bucket given by
\* kurtosis > 3 heavy-tailed, kurtosis < -1 light-tailed, normal-tailed
\* otherwise: the same thresholds in the distribution analysis, the
\* univariate summaries and the LLM summary.
C22_SameThresholdsEverywhere ==
    DistributionClassified =>
        /\ SkewBucket(response.result.skew)
              = (IF Abs(response.skewness) < 50 THEN "symmetric"
                 ELSE IF response.skewness >= 50 THEN "right-skewed"
                 ELSE "left-skewed")
        /\ response.result.kind = "shape" =>
              TailBucket(response.result.kurt)
                  = (IF response.kurtosis > 300 THEN "heavy-tailed"
                     ELSE IF response.kurtosis < -100 THEN "light-tailed"
                     ELSE "normal-tailed")

\* excess kurtosis 2 is normal-tailed in the distribution analysis and
\* heavy-tailed in the univariate summary of the same column
C22_Failing ==
    /\ DistributionClassified
    /\ response.op = "_classify_distribution_shape"
    /\ response.kurtosis = 200
    /\ response.result.kurt = "heavy-tailed (leptokurtic)"
    /\ _classify_distribution(response.skewness, response.kurtosis).kurt
          = "normal-tailed"

\* C24: contradictions_detected never exceeds total_checks, so the raw
\* consistency score of the metric is never negative, however often the
\* terms occur in the text.
C24_ContradictionsWithinChecks ==
    LLMValidated =>
        /\ response.result.consistency.details.contradictions_detected
              <= response.result.consistency.details.total_checks
        /\ response.result.consistency.raw_score >= 0

\* "high low high": one pair checked, both occurrences of "high" are close
\* to "low", two contradictions, raw score 1 - 2/1
C24_Failing ==
    /\ LLMValidated
    /\ response.llm_response = <<HighLowHigh>>
    /\ response.result.consistency.details.total_checks = 1
    /\ response.result.consistency.details.contradictions_detected = 2
    /\ response.result.consistency.raw_score = -One

\* every term of the antonym pairs
PairTerms == {contradiction_pairs[i][j] : i \in DOMAIN contradiction_pairs, j \in 1..2}

\* the occurrences of the term that are not a part of an occurrence of
\* a longer term: the places where the term stands as a word
WordPositions(term, text) ==
    {p \in Positions(term, text) :
        ~ \E other \in PairTerms \ {term} :
            \E q \in Positions(other, text) :
                q <= p /\ p + Len(term) <= q + Len(other)}

\* the pairs of which both terms stand as words in the text
WordPairs(text) ==
    {i \in DOMAIN contradiction_pairs :
        /\ WordPositions(contradiction_pairs[i][1], text) # {}
        /\ WordPositions(contradiction_pairs[i][2], text) # {}}

\* C25: a pair is checked only when both of its words occur in the text; a
\* text with only one word of a pair, such as "insignificant", produces no
\* check and no contradiction for the pair and has consistency 1.0: the
\* first term is matched as a word, not as a part of the second term.
C25_OneWordOfPairIsNoCheck ==
    LLMValidated =>
        /\ response.result.consistency.details.total_checks
              = Cardinality(WordPairs(response.llm_response))
        /\ WordPairs(response.llm_response) = {} =>
              /\ response.result.consistency.details.contradictions_detected = 0
              /\ response.result.consistency.normalized_score = One

\* "insignificant": no pair has both words, yet one check and one
\* contradiction two characters apart, consistency 0
C25_Failing ==
    /\ LLMValidated
    /\ response.llm_response = <<Insignificant>>
    /\ WordPairs(response.llm_response) = {}
    /\ response.result.consistency.details.total_checks = 1
    /\ response.result.consistency.details.contradictions_detected = 1
    /\ response.result.consistency.normalized_score = 0

(***************************************************************************)
(* Concurrent chat requests in one process.  The handlers are coroutines   *)
(* on one event loop: a request runs without interruption from one await   *)
(* to the next.  chat_with_data awaits load_dataset and, with the history  *)
(* already read for the prompt, awaits _get_chat_response; what follows    *)
(* the second await, the creation of the list and its extension by the two *)
(* entries, has no await in it.  `response` holds the requests in flight.  *)
(***************************************************************************)

MaxInFlight == 3

Requests == 1 .. MaxInFlight

\* every request sends its own message and is answered its own completion
MessageOf(r) == <<"message", r>>

CompletionOf(r, llm) ==
    IF IsRaised(get_chat_response_uncaught(llm)) THEN <<"Error: APIError", r>>
    ELSE <<"completion", r>>

Request(pc, dataset_id, context, reply) ==
    [pc |-> pc, dataset_id |-> dataset_id, context |-> context, reply |-> reply]

NotStarted == Request("new", None, << >>, << >>)

\* the registry and the files after the uploads of the given ids
RECURSIVE Registered(_)
Registered(ids) ==
    IF ids = {} THEN << >>
    ELSE LET x == CHOOSE y \in ids : TRUE
         IN save_dataset_metadata(Registered(ids \ {x}), x, UploadPath(x, ".csv"))

\* lines 72-78 with the history read at line 59 written back instead of
\* the list of self.chat_history being extended
saved_history_of_context(hist, context, dataset_id, message, reply) ==
    [x \in DOMAIN hist \cup {dataset_id} |->
        IF x = dataset_id
        THEN context \o <<ChatEntry("user", message), ChatEntry("assistant", reply)>>
        ELSE hist[x]]

\* lines 72-78: the list of self.chat_history is created if missing and
\* extended in place; the history read at line 59 served the prompt only
saved_history(hist, context, dataset_id, message, reply) ==
    Extend(hist, dataset_id, message, reply)

\* chat_with_data up to `await self._get_chat_response(messages)`
chat_await_response(r, dataset_id) ==
    /\ response.requests[r].pc = "new"
    /\ response' = [response EXCEPT !.requests[r] =
          IF load_dataset(metadata, uploads, dataset_id) = PyNone
          THEN Request("raised", dataset_id, << >>, << >>)
          ELSE Request("awaiting", dataset_id,
                       LastEntries(History(chat_history, dataset_id), 5), << >>)]
    /\ UNCHANGED <<logVars, fileVars, chat_history>>

\* chat_with_data from the LLM's answer to its return
chat_save(r, llm) ==
    /\ response.requests[r].pc = "awaiting"
    /\ chat_history' = saved_history(chat_history, response.requests[r].context,
                           response.requests[r].dataset_id, MessageOf(r),
                           CompletionOf(r, llm))
    /\ response' = [response EXCEPT
                       !.requests[r].pc = "returned",
                       !.requests[r].reply = CompletionOf(r, llm)]
    /\ UNCHANGED <<logVars, fileVars>>

InitChats ==
    /\ analysis_logs = << >>
    /\ logged = [d \in Datasets |-> << >>]
    /\ writer = << >>
    /\ \E ids \in (SUBSET Datasets) \ {{}} :
          /\ metadata = Registered(ids)
          /\ uploads = {UploadPath(x, ".csv") : x \in ids}
          /\ usedIds = ids
    /\ deleted = {}
    /\ chat_history = << >>
    /\ response = [op |-> "chats", requests |-> [r \in Requests |-> NotStarted]]

NextChats ==
    \/ \E r \in Requests, d \in Datasets : chat_await_response(r, d)
    \/ \E r \in Requests, llm \in LLMOutcomes : chat_save(r, llm)

SpecChats == InitChats /\ [][NextChats]_vars

\* the requests for dataset d that have completed
Completed(d) ==
    {r \in Requests : /\ response.requests[r].pc = "returned"
                      /\ response.requests[r].dataset_id = d}

\* the request whose pair stands at entries 2k-1 and 2k of the history
PairOf(history, k) ==
    {r \in Requests :
        /\ history[2 * k - 1] = ChatEntry("user", MessageOf(r))
        /\ history[2 * k] = ChatEntry("assistant", response.requests[r].reply)}

\* C26: under any interleaving of concurrent chat_with_data requests no
\* message is lost and no pair is split: when n chats for dataset d have
\* completed, d's history has exactly 2n entries, and each user entry is
\* immediately followed by the assistant reply of the same request.
C26_ConcurrentChatsKeepPairs ==
    response.op = "chats" =>
        \A d \in Datasets :
            LET history == History(chat_history, d)
                n == Cardinality(Completed(d))
            IN  /\ Len(history) = 2 * n
                /\ \A k \in 1 .. n : PairOf(history, k) \cap Completed(d) # {}
                /\ \A r \in Completed(d) : \E k \in 1 .. n : r \in PairOf(history, k)

\* three requests for one dataset all awaited the LLM with an empty history
\* read, and all three pairs are in the history
C26_Witness ==
    /\ response.op = "chats"
    /\ \E d \in Datasets :
          /\ Completed(d) = Requests
          /\ \A r \in Requests : response.requests[r].context = << >>
          /\ Len(History(chat_history, d)) = 2 * MaxInFlight
          /\ History(chat_history, d)[1].content # MessageOf(1)

\* A chat_with_data call for a dataset that cannot be loaded is answered in
\* this step.
ChatForUnloadable ==
    /\ response'.op = "chat_with_data"
    /\ load_dataset(metadata, uploads, response'.dataset_id) = PyNone

UnloadableChatStep ==
    ChatForUnloadable =>
        /\ response'.result = Raised("FileNotFoundError")
        /\ chat_history' = chat_history
        /\ DOMAIN chat_history' = DOMAIN chat_history

\* C27: chat_with_data for a dataset id that cannot be loaded raises the
\* dataset-not-found error whatever the LLM would have answered, and leaves
\* the chat history unchanged: no entry, not even an empty list, is created
\* for the id.
C27_UnloadableChatLeavesHistory == [][UnloadableChatStep]_vars

\* a chat for a deleted dataset that never had a history, with the LLM
\* failing, while the other dataset has two chats
C27_Witness ==
    /\ response.op = "chat_with_data"
    /\ response.llm = "raises"
    /\ response.result = Raised("FileNotFoundError")
    /\ response.dataset_id \in deleted
    /\ response.dataset_id \notin DOMAIN chat_history
    /\ \E o \in DOMAIN chat_history : Len(chat_history[o]) = 4

ClearStep ==
    response'.op = "clear_chat_history" =>
        LET d == response'.dataset_id
        IN  /\ response'.result = Returned(PyNone)
            /\ d \notin DOMAIN chat_history'
            /\ LastEntries(History(chat_history', d), 50) = << >>
            /\ DOMAIN chat_history' = DOMAIN chat_history \ {d}
            /\ \A o \in DOMAIN chat_history' : chat_history'[o] = chat_history[o]
            /\ d \notin DOMAIN chat_history => chat_history' = chat_history
            /\ WithoutHistory(chat_history', d) = chat_history'

\* C28: clear_chat_history(d) removes exactly the history of d, so that
\* get_chat_history(d) then returns the empty list, leaves the history of
\* every other dataset unchanged, and is a no-op without error when d has
\* no history: applying it twice is applying it once.
C28_ClearRemovesOneHistory == [][ClearStep]_vars

\* d1's history has been cleared while d2 keeps its two chats
C28_Witness ==
    /\ response.op = "clear_chat_history"
    /\ response.dataset_id = "d1"
    /\ "d1" \notin DOMAIN chat_history
    /\ "d2" \in DOMAIN chat_history
    /\ Len(chat_history["d2"]) = 4
    /\ "d1" \in usedIds

\* the lines of d's log file, and those of them that are not blank
LogLines(d) == FileLines(analysis_logs[d])

NonBlankLines(d) == {i \in DOMAIN LogLines(d) : LogLines(d)[i] # << >>}

\* C29: get_analysis_matrix(d) returns None exactly when d's log file does
\* not exist or has no non-blank line; blank lines are skipped; and if any
\* non-blank line is not a complete valid record the read fails as a whole:
\* a matrix returned holds every non-blank line of the file.
C29_MatrixOfAllLinesOrNone ==
    response.op = "get_analysis_matrix" =>
        LET d == response.dataset_id
            result == response.result
        IN  /\ result.kind \in {"None", "raised", "AnalysisMatrix"}
            /\ result.kind = "None" <=>
                  (d \notin DOMAIN analysis_logs \/ NonBlankLines(d) = {})
            /\ d \in DOMAIN analysis_logs =>
                  /\ (\E i \in NonBlankLines(d) : ~IsRecordLine(LogLines(d)[i]))
                        <=> result.kind = "raised"
                  /\ result.kind = "AnalysisMatrix" =>
                        /\ result.total_analyses = Cardinality(NonBlankLines(d))
                        /\ Len(result.analysis_records) = Cardinality(NonBlankLines(d))
                        /\ \A i \in NonBlankLines(d) :
                              \E k \in DOMAIN result.analysis_records :
                                 result.analysis_records[k] = ParseRecord(LogLines(d)[i])

\* a log with a complete record and a line that is no record: the read
\* raises although one line could be parsed
C29_Witness ==
    /\ response.op = "get_analysis_matrix"
    /\ response.result.kind = "raised"
    /\ \E i \in NonBlankLines(response.dataset_id) :
          IsRecordLine(LogLines(response.dataset_id)[i])
    /\ \E i \in NonBlankLines(response.dataset_id) :
          ~IsRecordLine(LogLines(response.dataset_id)[i])

(***************************************************************************)
(* Concurrent uploads and deletions in one process.  upload_dataset awaits *)
(* the write of the uploaded file (aiofiles) and then awaits               *)
(* process_uploaded_file, which reads the file with pandas and calls       *)
(* save_dataset_metadata: neither has an await that suspends, so the read, *)
(* the update and the write of metadata.json are one step of the event     *)
(* loop, and so is delete_dataset.  `response` holds the uploads in        *)
(* flight and the last deletion.                                           *)
(***************************************************************************)

Upload(pc, dataset_id, ext, readable) ==
    [pc |-> pc, dataset_id |-> dataset_id, ext |-> ext, readable |-> readable]

NoUpload == Upload("new", None, None, FALSE)

NoDeletion == [dataset_id |-> None, success |-> FALSE]

\* upload_dataset up to the end of `async with aiofiles.open(...)`
upload_write_file(r, dataset_id, ext, readable) ==
    /\ response.requests[r].pc = "new"
    /\ dataset_id \notin usedIds
    /\ IF ext \notin AllowedExtensions
       THEN /\ response' = [response EXCEPT !.requests[r] =
                               Upload("rejected", None, ext, readable)]
            /\ UNCHANGED <<uploads, usedIds>>
       ELSE /\ usedIds' = usedIds \cup {dataset_id}
            /\ uploads' = uploads \cup {UploadPath(dataset_id, ext)}
            /\ response' = [response EXCEPT !.requests[r] =
                               Upload("written", dataset_id, ext, readable)]
    /\ UNCHANGED <<logVars, metadata, deleted, chat_history>>

\* upload_dataset from `await file_handler.process_uploaded_file(...)` on
upload_process_file(r) ==
    /\ response.requests[r].pc = "written"
    /\ LET dataset_id == response.requests[r].dataset_id
           file_path == UploadPath(dataset_id, response.requests[r].ext)
       IN IF response.requests[r].readable
          THEN /\ metadata' = save_dataset_metadata(metadata, dataset_id, file_path)
               /\ response' = [response EXCEPT !.requests[r].pc = "completed"]
               /\ UNCHANGED uploads
          ELSE /\ uploads' = uploads \ {file_path}
               /\ response' = [response EXCEPT !.requests[r].pc = "failed"]
               /\ UNCHANGED metadata
    /\ UNCHANGED <<logVars, usedIds, deleted, chat_history>>

\* upload.py: delete_dataset, between the steps of the uploads
delete_dataset(dataset_id) ==
    /\ response' = [response EXCEPT !.deletion =
                       [dataset_id |-> dataset_id,
                        success |-> delete_dataset_returns(metadata, dataset_id)]]
    /\ deleted' = IF delete_dataset_returns(metadata, dataset_id)
                  THEN deleted \cup {dataset_id} ELSE deleted
    /\ metadata' = IF delete_dataset_returns(metadata, dataset_id)
                   THEN delete_dataset_metadata(metadata, dataset_id) ELSE metadata
    /\ uploads' = delete_dataset_files(metadata, uploads, dataset_id)
    /\ UNCHANGED <<logVars, usedIds, chat_history>>

InitRegistry ==
    /\ analysis_logs = << >>
    /\ logged = [d \in Datasets |-> << >>]
    /\ writer = << >>
    /\ metadata = << >>
    /\ uploads = {}
    /\ usedIds = {}
    /\ deleted = {}
    /\ chat_history = << >>
    /\ response = [op |-> "uploads", requests |-> [r \in Requests |-> NoUpload],
                   deletion |-> NoDeletion]

NextRegistry ==
    \/ \E r \in Requests, d \in Datasets, ext \in Extensions, readable \in BOOLEAN :
          upload_write_file(r, d, ext, readable)
    \/ \E r \in Requests : upload_process_file(r)
    \/ \E d \in Datasets : delete_dataset(d)

SpecRegistry == InitRegistry /\ [][NextRegistry]_vars

\* the ids whose upload completed successfully
Uploaded ==
    {response.requests[r].dataset_id :
        r \in {q \in Requests : response.requests[q].pc = "completed"}}

\* a delete of an id that is not registered is answered in this step
DeleteOfUnknown ==
    /\ response'.deletion # response.deletion \/ metadata' # metadata
    /\ response'.deletion.dataset_id \notin DOMAIN metadata
    /\ response'.requests = response.requests

\* C30: after any interleaving of upload and delete requests in one process
\* the registry holds exactly the ids whose upload completed successfully and
\* that were not deleted afterwards: no read-modify-write of the registry
\* drops the entry of another upload; a delete of an unknown id returns
\* false and leaves the registry unchanged.
C30_RegistryIsUploadedMinusDeleted ==
    /\ [](response.op = "uploads" => DOMAIN metadata = Uploaded \ deleted)
    /\ [][response.op = "uploads" /\ DeleteOfUnknown =>
             /\ response'.deletion.success = FALSE
             /\ metadata' = metadata
             /\ deleted' = deleted]_vars

\* two uploads wrote their files before either was processed, both are
\* registered, and a delete of an id in flight was refused
C30_Witness ==
    /\ response.op = "uploads"
    /\ Cardinality(Uploaded) = 2
    /\ DOMAIN metadata = Uploaded
    /\ response.deletion.dataset_id \in Uploaded
    /\ response.deletion.success = FALSE
    /\ deleted = {}

====
